---- MODULE Spec2Model ----
(***************************************************************************)
(* Profyle-Sync: resume categorisation, skill extraction and JD matching.  *)
(*                                                                         *)
(* Strings are sequences of Unicode code points (integers), so that        *)
(* lower-casing, regular-expression substitution and lexicographic sorting *)
(* are computed on characters as Python computes them.                     *)
(* Python None is the empty tuple <<>> and a present value x is <<x>>.     *)
(* Scores and confidences are floats with two decimals of interest; they   *)
(* are held as integers counting hundredths (6667 is 66.67).               *)
(***************************************************************************)
EXTENDS Integers, Sequences, FiniteSets, TLC

VARIABLES
    tfidf_file,      \* what is stored at TFIDF_MODEL_PATH
    model_file,      \* what is stored at ML_MODEL_PATH
    pc,              \* "init": inside __init__ before _load_models; "ready": constructed
    vectorizer,      \* MLCategorizationService.vectorizer
    model,           \* MLCategorizationService.model
    loaded,          \* MLCategorizationService.loaded
    load_error,      \* MLCategorizationService.load_error
    init_raised,     \* whether __init__ let an exception escape
    input,           \* the arguments the caller passes
    call,            \* the last public operation that ran
    outcome,         \* what that operation returned or raised
    calls,           \* the calls it made on the vectorizer and the classifier
    db,              \* the tables of the database and whether it is connected
    disk,            \* the uploaded file names whose temp_<name> file exists
    session,         \* st.session_state and where the running handler stands
    threads          \* the insert_resume_skills calls in progress

storeVars == <<db, disk, session, threads>>

vars == <<tfidf_file, model_file, pc, vectorizer, model, loaded, load_error,
          init_raised, input, call, outcome, calls, db, disk, session, threads>>

-----------------------------------------------------------------------------
(* Bounds of the model.                                                    *)

MaxTextLen == 2
MaxResumeSkills == 2
MaxJdSkills == 3
MaxCleanTokens == 4
MaxSkillTokens == 3
MaxNerTokens == 3
MaxEntities == 1
MaxBatch == 2

-----------------------------------------------------------------------------
(* Python values.                                                          *)

None == <<>>
Some(x) == <<x>>

Return(v) == [raised |-> FALSE, value |-> v]
Raise(e) == [raised |-> TRUE, value |-> e]
NoOutcome == [raised |-> FALSE, value |-> <<>>]

-----------------------------------------------------------------------------
(* Characters and strings.                                                 *)

\* str.isspace / the regex class \s on str patterns
IsSpace(c) == c \in {9, 10, 11, 12, 13, 28, 29, 30, 31, 32, 133, 160}

\* str.lower on one character (Basic Latin and Latin-1)
LowerChar(c) ==
    IF (c >= 65 /\ c <= 90) \/ (c >= 192 /\ c <= 222 /\ c # 215) THEN c + 32 ELSE c

\* str.lower
Lower(s) == [i \in 1..Len(s) |-> LowerChar(s[i])]

\* the character class built from re.escape of !"#$%&'()*+,-./:;<=>?@[\]^_`{|}~
IsPunct(c) ==
    \/ (c >= 33 /\ c <= 47)
    \/ (c >= 58 /\ c <= 64)
    \/ (c >= 91 /\ c <= 96)
    \/ (c >= 123 /\ c <= 126)

\* the order Python compares str by: code point by code point, a prefix first
RECURSIVE StrLess(_, _)
StrLess(a, b) ==
    IF b = <<>> THEN FALSE
    ELSE IF a = <<>> THEN TRUE
    ELSE IF a[1] # b[1] THEN a[1] < b[1]
    ELSE StrLess(Tail(a), Tail(b))

\* sorted(list(S)) for a set S of strings
RECURSIVE Sorted(_)
Sorted(S) ==
    IF S = {} THEN <<>>
    ELSE LET m == CHOOSE x \in S : \A y \in S : y = x \/ StrLess(x, y)
         IN <<m>> \o Sorted(S \ {m})

Range(f) == {f[i] : i \in DOMAIN f}

\* every sequence over S of length at most n
SeqsUpTo(S, n) == UNION {[1..k -> S] : k \in 0..n}

-----------------------------------------------------------------------------
(* services/text_processing.py: regular-expression substitutions.          *)
(* re.sub scans left to right; at each position the pattern either matches *)
(* (the replacement is emitted and the scan resumes after the match) or    *)
(* the character is copied.                                                *)

\* the last index of the maximal run of non-whitespace that starts at i
\* (i - 1 when s[i] is whitespace or i is past the end): the greedy \S+
RECURSIVE NonSpaceRunEnd(_, _)
NonSpaceRunEnd(s, i) ==
    IF i > Len(s) \/ IsSpace(s[i]) THEN i - 1 ELSE NonSpaceRunEnd(s, i + 1)

\* whether the literal lit occurs in s at index i
LiteralAt(s, i, lit) ==
    /\ i + Len(lit) - 1 <= Len(s)
    /\ \A k \in 1..Len(lit) : s[i + k - 1] = lit[k]

\* the last index of a match of  lit\S+\s  at i, or 0 when there is none:
\* \S+ is greedy and cannot give a character back to \s, so the run must be
\* followed by a whitespace character
TokenSpaceMatchEnd(s, i, lit) ==
    IF ~LiteralAt(s, i, lit) THEN 0
    ELSE LET e == NonSpaceRunEnd(s, i + Len(lit))
         IN IF e >= i + Len(lit) /\ e + 1 <= Len(s) THEN e + 1 ELSE 0

\* the last index of a match of  lit\S+  at i, or 0 when there is none
TokenMatchEnd(s, i, lit) ==
    IF ~LiteralAt(s, i, lit) THEN 0
    ELSE LET e == NonSpaceRunEnd(s, i + Len(lit))
         IN IF e >= i + Len(lit) THEN e ELSE 0

\* re.sub(lit + '\S+\s', repl, s) from index i on
RECURSIVE SubTokenSpace(_, _, _, _)
SubTokenSpace(s, i, lit, repl) ==
    IF i > Len(s) THEN <<>>
    ELSE LET e == TokenSpaceMatchEnd(s, i, lit)
         IN IF e > 0 THEN repl \o SubTokenSpace(s, e + 1, lit, repl)
            ELSE <<s[i]>> \o SubTokenSpace(s, i + 1, lit, repl)

\* re.sub(lit + '\S+', repl, s) from index i on
RECURSIVE SubToken(_, _, _, _)
SubToken(s, i, lit, repl) ==
    IF i > Len(s) THEN <<>>
    ELSE LET e == TokenMatchEnd(s, i, lit)
         IN IF e > 0 THEN repl \o SubToken(s, e + 1, lit, repl)
            ELSE <<s[i]>> \o SubToken(s, i + 1, lit, repl)

\* the mutant of SubEither that deletes the match and puts nothing in its place
RECURSIVE SubEitherDeleting(_, _, _, _, _)
SubEitherDeleting(s, i, a, b, repl) ==
    IF i > Len(s) THEN <<>>
    ELSE IF LiteralAt(s, i, a) THEN SubEitherDeleting(s, i + Len(a), a, b, repl)
    ELSE IF LiteralAt(s, i, b) THEN SubEitherDeleting(s, i + Len(b), a, b, repl)
    ELSE <<s[i]>> \o SubEitherDeleting(s, i + 1, a, b, repl)

\* re.sub(a + '|' + b, repl, s) from index i on, a and b literals
RECURSIVE SubEither(_, _, _, _, _)
SubEither(s, i, a, b, repl) ==
    IF i > Len(s) THEN <<>>
    ELSE IF LiteralAt(s, i, a) THEN repl \o SubEither(s, i + Len(a), a, b, repl)
    ELSE IF LiteralAt(s, i, b) THEN repl \o SubEither(s, i + Len(b), a, b, repl)
    ELSE <<s[i]>> \o SubEither(s, i + 1, a, b, repl)

\* re.sub('[%s]' % re.escape(punctuation), ' ', s)
SubPunct(s) == [i \in 1..Len(s) |-> IF IsPunct(s[i]) THEN 32 ELSE s[i]]

\* the mutant of SubNonAscii that leaves the text as it is
SubNonAsciiKept(s) == s

\* re.sub(r'[^\x00-\x7f]', ' ', s)
SubNonAscii(s) == [i \in 1..Len(s) |-> IF s[i] > 127 THEN 32 ELSE s[i]]

\* re.sub('\s+', ' ', s) from index i on
RECURSIVE SubSpaces(_, _)
SubSpaces(s, i) ==
    IF i > Len(s) THEN <<>>
    ELSE IF IsSpace(s[i])
         THEN <<32>> \o SubSpaces(s, CHOOSE j \in (i + 1)..(Len(s) + 1) :
                                        /\ \A k \in i..(j - 1) : IsSpace(s[k])
                                        /\ (j > Len(s) \/ ~IsSpace(s[j])))
         ELSE <<s[i]>> \o SubSpaces(s, i + 1)

\* str.strip
RECURSIVE Strip(_)
Strip(s) ==
    IF s = <<>> THEN <<>>
    ELSE IF IsSpace(s[1]) THEN Strip(Tail(s))
    ELSE IF IsSpace(s[Len(s)]) THEN Strip(SubSeq(s, 1, Len(s) - 1))
    ELSE s

Http == <<104, 116, 116, 112>>
UpperRT == <<82, 84>>
LowerRT == <<114, 116>>
LowerCC == <<99, 99>>
Hash == <<35>>
At == <<64>>
OneSpace == <<32>>
TwoSpaces == <<32, 32>>

\* lines 25-31 of clean_resume_for_categorization
CleanSubstitutions(txt) ==
    LET t1 == SubTokenSpace(txt, 1, Http, OneSpace)
        t2 == SubEither(t1, 1, UpperRT, LowerCC, OneSpace)
        t3 == SubTokenSpace(t2, 1, Hash, OneSpace)
        t4 == SubToken(t3, 1, At, TwoSpaces)
        t5 == SubPunct(t4)
        t6 == SubNonAscii(t5)
    IN SubSpaces(t6, 1)

\* clean_resume_for_categorization(txt), remove_stopwords = False
clean_resume_for_categorization(txt) == Lower(CleanSubstitutions(txt))

-----------------------------------------------------------------------------
(* services/skill_extraction.py: SkillExtractor.match_with_jd.             *)

\* the mutant of LowerSet that compares the skills as written
LowerSetCaseSensitive(skills) == {skills[i] : i \in DOMAIN skills}

\* set(s.lower() for s in skills)
LowerSet(skills) == {Lower(skills[i]) : i \in DOMAIN skills}

\* resume_skills_set.intersection(jd_skills_set)
MatchingSkills(resume_skills_set, jd_skills_set) ==
    resume_skills_set \cap jd_skills_set

\* the mutant of MissingSkills with the operands exchanged
MissingSkillsSwapped(resume_skills_set, jd_skills_set) ==
    resume_skills_set \ jd_skills_set

\* jd_skills_set.difference(resume_skills_set)
MissingSkills(resume_skills_set, jd_skills_set) ==
    jd_skills_set \ resume_skills_set

\* a / b on floats, as the exact fraction; ZeroDivisionError when b is 0
Divide(a, b) ==
    IF b = 0 THEN Raise("ZeroDivisionError") ELSE Return([num |-> a, den |-> b])

\* the mutant of ScoreOf without the conditional: the division is always made
ScoreOfUnguarded(matched, total) ==
    LET d == Divide(matched, total)
    IN IF d.raised THEN d ELSE Return([d.value EXCEPT !.num = @ * 100])

\* (len(matching_skills) / len(jd_skills_set)) * 100 if jd_skills_set else 0
ScoreOf(matched, total) ==
    IF total # 0
    THEN LET d == Divide(matched, total)
         IN IF d.raised THEN d ELSE Return([d.value EXCEPT !.num = @ * 100])
    ELSE Return([num |-> 0, den |-> 1])

\* the mutant of Round2 that cuts the digits after the second decimal
Round2Truncating(x) == (x.num * 100) \div x.den

\* round(x, 2) of x = num / den, in hundredths; round() rounds to the nearest
\* and an exact tie to the even digit. (Agrees with CPython's float result
\* for every total_jd_skills below 160.)
Round2(x) ==
    LET q == (x.num * 100) \div x.den
        r == (x.num * 100) % x.den
    IN IF 2 * r < x.den THEN q
       ELSE IF 2 * r > x.den THEN q + 1
       ELSE IF q % 2 = 0 THEN q ELSE q + 1

\* what match_with_jd returns, or the exception it ends with
match_with_jd(resume_skills, jd_skills) ==
    LET resume_skills_set == LowerSet(resume_skills)
        jd_skills_set == LowerSet(jd_skills)
        matching_skills == MatchingSkills(resume_skills_set, jd_skills_set)
        missing_skills == MissingSkills(resume_skills_set, jd_skills_set)
        score == ScoreOf(Cardinality(matching_skills), Cardinality(jd_skills_set))
    IN IF score.raised THEN score
       ELSE Return([score |-> Round2(score.value),
                    matching_skills |-> Sorted(matching_skills),
                    missing_skills |-> Sorted(missing_skills),
                    total_jd_skills |-> Cardinality(jd_skills_set),
                    matched_count |-> Cardinality(matching_skills)])

-----------------------------------------------------------------------------
(* config/settings.py                                                      *)

CATEGORY_MAPPING ==
    15 :> "Java Developer" @@ 23 :> "Testing" @@ 8 :> "DevOps Engineer" @@
    20 :> "Python Developer" @@ 24 :> "Web Designing" @@ 12 :> "HR" @@
    13 :> "Hadoop" @@ 3 :> "Blockchain" @@ 10 :> "ETL Developer" @@
    18 :> "Operations Manager" @@ 6 :> "Data Science" @@ 22 :> "Sales" @@
    16 :> "Mechanical Engineer" @@ 1 :> "Arts" @@ 7 :> "Database" @@
    11 :> "Electrical Engineering" @@ 14 :> "Health and fitness" @@ 19 :> "PMO" @@
    4 :> "Business Analyst" @@ 9 :> "DotNet Developer" @@ 2 :> "Automation Testing" @@
    17 :> "Network Security Engineer" @@ 21 :> "SAP Developer" @@ 5 :> "Civil Engineer" @@
    0 :> "Advocate"

TFIDF_MODEL_PATH == "tfidf.pkl"
ML_MODEL_PATH == "model.pkl"

-----------------------------------------------------------------------------
(* The model store: what the two pickle files can hold.                    *)

\* A deserialized vectorizer, by the attributes _load_models inspects:
\*   vocabulary_  "absent" (no attribute), "empty" (falsy) or "fitted"
\*   idf_         "absent", "None" or "fitted"
\*   tfidf_idf    whether vectorizer._tfidf exists and has idf_
VectorizerObjects ==
    [vocabulary_ : {"absent", "empty", "fitted"},
     idf_ : {"absent", "None", "fitted"},
     tfidf_idf : BOOLEAN]

\* A deserialized classifier, by whether it has predict_proba
ModelObjects == [predict_proba : BOOLEAN]

Missing == [exists |-> FALSE]
Unreadable == [exists |-> TRUE, readable |-> FALSE]
Pickled(obj) == [exists |-> TRUE, readable |-> TRUE, object |-> obj]

TfidfFiles == {Missing, Unreadable} \cup {Pickled(v) : v \in VectorizerObjects}
ModelFiles == {Missing, Unreadable} \cup {Pickled(m) : m \in ModelObjects}

-----------------------------------------------------------------------------
(* services/ml_service.py: MLCategorizationService._load_models.           *)

Exception(type, msg) == Some([type |-> type, msg |-> msg])

LoadState(v, m, l, e) == [vectorizer |-> v, model |-> m, loaded |-> l, exc |-> e]

\* hasattr(vectorizer, 'vocabulary_') and vectorizer.vocabulary_
HasVocabulary(v) == v.vocabulary_ = "fitted"

\* hasattr(vectorizer, 'idf_') and vectorizer.idf_ is not None
HasIdf(v) == v.idf_ = "fitted"

\* the mutant of FixVectorizer that supplies idf_ whether or not
\* vectorizer._tfidf has one
FixVectorizerUnconditional(v) ==
    IF HasVocabulary(v) /\ ~HasIdf(v)
    THEN [v EXCEPT !.idf_ = "fitted"]
    ELSE v

\* The repair of lines 66-86: with a vocabulary but no idf_, idf_ is copied
\* from vectorizer._tfidf when that has one. (check_is_fitted afterwards only
\* logs: its exception is swallowed by a bare except.)
FixVectorizer(v) ==
    IF HasVocabulary(v) /\ ~HasIdf(v) /\ v.tfidf_idf
    THEN [v EXCEPT !.idf_ = "fitted"]
    ELSE v

\* The body of the try statement, lines 28-91: the fields it leaves and the
\* exception it ends with (None when it runs to the end).
LoadBody(tfidf, ml) ==
    IF ~tfidf.exists
    THEN LoadState(None, None, FALSE,
             Exception("FileNotFoundError", "TF-IDF model not found at " \o TFIDF_MODEL_PATH))
    ELSE IF ~ml.exists
    THEN LoadState(None, None, FALSE,
             Exception("FileNotFoundError", "ML model not found at " \o ML_MODEL_PATH))
    ELSE IF ~tfidf.readable
    THEN LoadState(None, None, FALSE,
             Exception("UnpicklingError", "could not load " \o TFIDF_MODEL_PATH))
    ELSE IF ~ml.readable
    THEN LoadState(Some(tfidf.object), None, FALSE,
             Exception("UnpicklingError", "could not load " \o ML_MODEL_PATH))
    ELSE LET v == FixVectorizer(tfidf.object)
         IN IF ~HasVocabulary(v) \/ ~HasIdf(v)
            THEN LoadState(Some(v), Some(ml.object), FALSE,
                     Exception("ValueError", "Vectorizer not properly fitted"))
            ELSE LoadState(Some(v), Some(ml.object), TRUE, None)

\* the mutant of LoadHandler with the FileNotFoundError clause alone: any
\* other exception leaves _load_models and __init__
LoadHandlerNotFoundOnly(exc) ==
    IF exc = None THEN [load_error |-> None, raised |-> FALSE]
    ELSE IF exc[1].type = "FileNotFoundError"
    THEN [load_error |-> Some("Model files not found: " \o exc[1].msg), raised |-> FALSE]
    ELSE [load_error |-> None, raised |-> TRUE]

\* The except clauses, lines 92-97: the load_error they record, and whether
\* the exception leaves _load_models.
LoadHandler(exc) ==
    IF exc = None THEN [load_error |-> None, raised |-> FALSE]
    ELSE IF exc[1].type = "FileNotFoundError"
    THEN [load_error |-> Some("Model files not found: " \o exc[1].msg
                              \o ". Please ensure tfidf.pkl and model.pkl are in the project root."),
          raised |-> FALSE]
    ELSE [load_error |-> Some("Error loading models: " \o exc[1].msg), raised |-> FALSE]

load_models(tfidf, ml) ==
    LET body == LoadBody(tfidf, ml)
        handled == LoadHandler(body.exc)
    IN [vectorizer |-> body.vectorizer, model |-> body.model, loaded |-> body.loaded,
        load_error |-> handled.load_error, raised |-> handled.raised]

-----------------------------------------------------------------------------
(* services/ml_service.py: MLCategorizationService.predict_category.       *)

\* What the classifier's predict can return as element [0]:
\* an integer label or a string label, as a numpy scalar or a plain value.
IntLabel(n, np) == [type |-> "int", num |-> n, text |-> "", numpy |-> np]
StrLabel(t, np) == [type |-> "str", num |-> 0, text |-> t, numpy |-> np]

PredictedInts == {-1, 0, 20, 25}
Predictions ==
    {IntLabel(n, np) : n \in PredictedInts, np \in BOOLEAN}
        \cup {StrLabel(t, np) : t \in {"HR", "6"}, np \in BOOLEAN}

\* predict_proba(features)[0]: per-class probabilities, in hundredths
ProbabilityVectors == {<<100, 0>>, <<50, 50>>, <<15, 60, 25>>}

\* What the vectorizer and the classifier do during one call.
Behaviour(tr, dg, pr, p, qr, q) ==
    [transform_raises |-> tr, diag_raises |-> dg, predict_raises |-> pr,
     prediction |-> p, proba_raises |-> qr, probabilities |-> q]

Behaviours ==
    {Behaviour(TRUE, dg, FALSE, IntLabel(0, FALSE), FALSE, <<100, 0>>) : dg \in BOOLEAN}
        \cup {Behaviour(FALSE, FALSE, TRUE, IntLabel(0, FALSE), FALSE, <<100, 0>>)}
        \cup {Behaviour(FALSE, FALSE, FALSE, p, TRUE, <<100, 0>>) : p \in Predictions}
        \cup {Behaviour(FALSE, FALSE, FALSE, p, FALSE, q) :
                 p \in Predictions, q \in ProbabilityVectors}

Called(fn, result) == [fn |-> fn, result |-> result]

\* a call that is told apart by the argument it was made on
CalledOn(fn, arg, result) == [fn |-> fn, arg |-> arg, result |-> result]

Done(result, made) == [raised |-> result.raised, value |-> result.value, calls |-> made]

\* prediction_id.item() when prediction_id has item
Item(prediction_id) == [prediction_id EXCEPT !.numpy = FALSE]

\* f"{prediction_id}"
Format(prediction_id) ==
    IF prediction_id.type = "int" THEN ToString(prediction_id.num) ELSE prediction_id.text

\* the mutant of CategoryName whose default does not carry the ID
CategoryNameNoId(prediction_id) ==
    IF prediction_id.type = "int" /\ prediction_id.num \in DOMAIN CATEGORY_MAPPING
    THEN CATEGORY_MAPPING[prediction_id.num]
    ELSE "Unknown"

\* CATEGORY_MAPPING.get(prediction_id, f"Unknown Category ({prediction_id})")
CategoryName(prediction_id) ==
    IF prediction_id.type = "int" /\ prediction_id.num \in DOMAIN CATEGORY_MAPPING
    THEN CATEGORY_MAPPING[prediction_id.num]
    ELSE "Unknown Category (" \o Format(prediction_id) \o ")"

\* int(prediction_id): the number a string spells, a ValueError for a string
\* that is no integer literal
IntOf(prediction_id) ==
    IF prediction_id.type = "int" THEN Return(prediction_id.num)
    ELSE IF prediction_id.text = "6" THEN Return(6)
    ELSE Raise("ValueError")

MaxOf(q) == CHOOSE x \in Range(q) : \A y \in Range(q) : y <= x

\* the mutant of Confidence that keeps the probability as a fraction
ConfidenceAsFraction(probabilities) == MaxOf(probabilities)

\* float(max(probabilities)) * 100.0, in hundredths of a percent
Confidence(probabilities) == MaxOf(probabilities) * 100

\* lines 150-166, after a successful transform
PredictAfterTransform(self, env, made0) ==
    IF env.predict_raises
    THEN Done(Raise("predict"), Append(made0, Called("predict", Raise("predict"))))
    ELSE
    LET made1 == Append(made0, Called("predict", Return(env.prediction)))
        prediction_id == Item(env.prediction)
    IN IF self.model[1].predict_proba /\ env.proba_raises
       THEN Done(Raise("predict_proba"),
                 Append(made1, Called("predict_proba", Raise("predict_proba"))))
       ELSE
       LET made2 == IF self.model[1].predict_proba
                    THEN Append(made1, Called("predict_proba", Return(env.probabilities)))
                    ELSE made1
           confidence == IF self.model[1].predict_proba
                         THEN Confidence(env.probabilities) ELSE 0
           category_name == CategoryName(prediction_id)
           id == IntOf(prediction_id)
       IN IF id.raised THEN Done(id, made2)
          ELSE Done(Return(<<category_name, Some(id.value), confidence>>), made2)

\* the except clause of the inner try, lines 142-148: the diagnostics read
\* vectorizer.__dict__, which an object without one answers by raising
TransformHandler(env) ==
    IF env.diag_raises THEN Raise("AttributeError")
    ELSE Return(<<"Model Error", None, 0>>)

\* the mutant of PredictBody without the test of the cleaned text
PredictBodyNoEmptyCheck(self, resume_text, env) ==
    IF resume_text = None THEN Done(Raise("TypeError"), <<>>)
    ELSE IF env.transform_raises
    THEN Done(TransformHandler(env), <<Called("transform", Raise("transform"))>>)
    ELSE PredictAfterTransform(self, env, <<Called("transform", Return("features"))>>)

\* the body of the outer try, lines 117-166
PredictBody(self, resume_text, env) ==
    IF resume_text = None THEN Done(Raise("TypeError"), <<>>)
    ELSE
    LET cleaned_text == clean_resume_for_categorization(resume_text[1])
    IN IF Strip(cleaned_text) = <<>>
       THEN Done(Return(<<"Unknown", None, 0>>), <<>>)
       ELSE IF env.transform_raises
       THEN Done(TransformHandler(env), <<Called("transform", Raise("transform"))>>)
       ELSE PredictAfterTransform(self, env, <<Called("transform", Return("features"))>>)

\* the mutant of PredictHandler that catches nothing
PredictHandlerAbsent(body) == body

\* the mutant of PredictHandler that reports a failure under another name
PredictHandlerUnnamed(body) ==
    IF body.raised THEN Done(Return(<<"Error", None, 0>>), body.calls)
    ELSE body

\* the except clause of the outer try, lines 168-172
PredictHandler(body) ==
    IF body.raised THEN Done(Return(<<"Prediction Error", None, 0>>), body.calls)
    ELSE body

\* the mutant of predict_category without the test of self.loaded: on a
\* service holding no classifier the first use of it raises, which the outer
\* handler reports
PredictCategoryNoLoadedCheck(self, resume_text, env) ==
    IF self.model = None THEN Done(Return(<<"Prediction Error", None, 0>>), <<>>)
    ELSE PredictHandler(PredictBody(self, resume_text, env))

predict_category(self, resume_text, env) ==
    IF ~self.loaded THEN Done(Return(<<"Unknown", None, 0>>), <<>>)
    ELSE PredictHandler(PredictBody(self, resume_text, env))

-----------------------------------------------------------------------------
(* The inputs the operations are run on.                                   *)

\* space, '@', 'R', 'T', 'a', 'c'
TextChars == {32, 64, 82, 84, 97, 99}
Texts == SeqsUpTo(TextChars, MaxTextLen)

\* the argument of predict_category: a str, or None in its place
TextArguments == {None} \cup {Some(t) : t \in Texts}

\* "aws", "AWS", "Sql", "r", "R"
SkillNames == {<<97, 119, 115>>, <<65, 87, 83>>, <<83, 113, 108>>, <<114>>, <<82>>}
ResumeSkillLists == SeqsUpTo(SkillNames, MaxResumeSkills)
JdSkillLists == SeqsUpTo(SkillNames, MaxJdSkills)

-----------------------------------------------------------------------------
(* The categorisation service: construction, then calls on it.             *)

\* MLCategorizationService.__init__ up to the call of _load_models
InitService ==
    /\ pc = "init"
    /\ vectorizer = None
    /\ model = None
    /\ loaded = FALSE
    /\ load_error = None
    /\ init_raised = FALSE
    /\ call = "none"
    /\ outcome = NoOutcome
    /\ calls = <<>>

\* no database, no temp file, no browser session, no call in progress
NoDb ==
    [connected |-> FALSE, resumes |-> <<>>, resume_analysis |-> <<>>, skills |-> <<>>,
     resume_skills |-> <<>>, job_descriptions |-> <<>>, resume_jd_matches |-> <<>>]

NoSession ==
    [at |-> "none", i |-> 0, uploaded_file_details |-> <<>>, categorization_data |-> <<>>,
     categorization_results |-> None, analysis_output |-> None, shown |-> <<>>]

InitStore ==
    /\ db = NoDb
    /\ disk = {}
    /\ session = NoSession
    /\ threads = <<>>

Init ==
    /\ tfidf_file \in TfidfFiles
    /\ model_file \in ModelFiles
    /\ input \in [resume_text : TextArguments]
    /\ InitService
    /\ InitStore

Self == [vectorizer |-> vectorizer, model |-> model, loaded |-> loaded,
         load_error |-> load_error]

\* self._load_models(), the last statement of __init__
LoadModels ==
    /\ pc = "init"
    /\ LET r == load_models(tfidf_file, model_file)
       IN /\ vectorizer' = r.vectorizer
          /\ model' = r.model
          /\ loaded' = r.loaded
          /\ load_error' = r.load_error
          /\ init_raised' = r.raised
          /\ pc' = IF r.raised THEN "failed" ELSE "ready"
    /\ UNCHANGED storeVars
    /\ UNCHANGED <<tfidf_file, model_file, input, call, outcome, calls>>

\* the caller's one call of predict_category on the constructed service
PredictCategory ==
    /\ pc = "ready"
    /\ call = "none"
    /\ \E env \in Behaviours :
          LET r == predict_category(Self, input.resume_text, env)
          IN /\ call' = "predict_category"
             /\ outcome' = [raised |-> r.raised, value |-> r.value]
             /\ calls' = r.calls
    /\ UNCHANGED storeVars
    /\ UNCHANGED <<tfidf_file, model_file, pc, vectorizer, model, loaded, load_error,
                   init_raised, input>>

Next == LoadModels \/ PredictCategory

Spec == Init /\ [][Next]_vars

-----------------------------------------------------------------------------
(* The match scorer on its own: SkillExtractor.match_with_jd reads nothing *)
(* of the service, so it is run beside one fixed service state.            *)

InitMatch ==
    /\ tfidf_file = Missing
    /\ model_file = Missing
    /\ input \in [resume_skills : ResumeSkillLists, jd_skills : JdSkillLists]
    /\ InitService
    /\ InitStore

MatchWithJd ==
    /\ call' = "match_with_jd"
    /\ outcome' = match_with_jd(input.resume_skills, input.jd_skills)
    /\ UNCHANGED storeVars
    /\ UNCHANGED <<tfidf_file, model_file, pc, vectorizer, model, loaded, load_error,
                   init_raised, input, calls>>

NextMatch == MatchWithJd

SpecMatch == InitMatch /\ [][NextMatch]_vars

-----------------------------------------------------------------------------
(* Properties of match_with_jd, checked under SpecMatch.                   *)

Matched == call = "match_with_jd"
Report == outcome.value

\* the lower-cased sets r and j of the two argument lists
ResumeLower == {Lower(input.resume_skills[i]) : i \in DOMAIN input.resume_skills}
JdLower == {Lower(input.jd_skills[i]) : i \in DOMAIN input.jd_skills}

\* C1: matching_skills is exactly the skills in both r and j, missing_skills
\* exactly those in j and not in r; together they are j and they share no
\* element; matched_count = |matching_skills| and
\* total_jd_skills = |j| = |matching_skills| + |missing_skills|.
C1_MatchPartition ==
    Matched =>
        /\ ~outcome.raised
        /\ LET matching == Range(Report.matching_skills)
               missing == Range(Report.missing_skills)
           IN /\ \A s \in ResumeLower \cup JdLower :
                    /\ s \in matching <=> (s \in ResumeLower /\ s \in JdLower)
                    /\ s \in missing <=> (s \in JdLower /\ s \notin ResumeLower)
              /\ matching \cup missing = JdLower
              /\ matching \cap missing = {}
              /\ Report.matched_count = Cardinality(matching)
              /\ Report.matched_count = Len(Report.matching_skills)
              /\ Report.total_jd_skills = Cardinality(JdLower)
              /\ Report.total_jd_skills
                     = Len(Report.matching_skills) + Len(Report.missing_skills)

\* a resume and a JD that share a skill written in different case, with a
\* JD skill the resume lacks and a resume skill the JD lacks
C1_Witness ==
    /\ Matched
    /\ input.resume_skills = <<<<97, 119, 115>>, <<82>>>>
    /\ input.jd_skills = <<<<65, 87, 83>>, <<83, 113, 108>>, <<97, 119, 115>>>>
    /\ Report.matching_skills = <<<<97, 119, 115>>>>
    /\ Report.missing_skills = <<<<115, 113, 108>>>>

\* C2: with an empty job-description list the call returns (it does not end
\* with a division error) score 0 and empty matching and missing lists,
\* whatever the resume list.
C2_EmptyJdScoresZero ==
    (Matched /\ input.jd_skills = <<>>) =>
        /\ ~outcome.raised
        /\ Report.score = 0
        /\ Report.total_jd_skills = 0
        /\ Report.matching_skills = <<>>
        /\ Report.missing_skills = <<>>

C2_Witness ==
    /\ Matched
    /\ input.jd_skills = <<>>
    /\ Len(input.resume_skills) = 2
    /\ ~outcome.raised

\* C3: when the JD list is not empty and every JD skill is, case aside, a
\* resume skill, the score is 100.00 and missing_skills is empty.
C3_FullCoverScoresHundred ==
    (Matched /\ JdLower # {} /\ JdLower \subseteq ResumeLower) =>
        /\ ~outcome.raised
        /\ Report.score = 10000
        /\ Report.missing_skills = <<>>

\* the JD names AWS and R in upper case, the resume in lower case
C3_Witness ==
    /\ Matched
    /\ input.resume_skills = <<<<97, 119, 115>>, <<114>>>>
    /\ input.jd_skills = <<<<65, 87, 83>>, <<82>>>>
    /\ Report.score = 10000

\* C4: the score is within [0, 100], and with a non-empty JD set it is the
\* two-decimal value nearest to matched_count / total_jd_skills * 100 (no
\* further from it than half a hundredth).
C4_ScoreRounded ==
    Matched =>
        /\ ~outcome.raised
        /\ Report.score >= 0
        /\ Report.score <= 10000
        /\ Report.total_jd_skills > 0 =>
              LET exact == Report.matched_count * 10000
                  given == Report.score * Report.total_jd_skills
              IN /\ 2 * (given - exact) <= Report.total_jd_skills
                 /\ 2 * (exact - given) <= Report.total_jd_skills

\* two of three JD skills matched: 66.67
C4_Witness ==
    /\ Matched
    /\ Report.matched_count = 2
    /\ Report.total_jd_skills = 3
    /\ Report.score = 6667

-----------------------------------------------------------------------------
(* Properties of the categorisation service, checked under Spec.           *)

Predicted == call = "predict_category"
Result == outcome.value

Unknown == <<"Unknown", None, 0>>
PredictionError == <<"Prediction Error", None, 0>>

\* the calls of fn the last operation made that raised
RaisedIn(fn) == \E i \in DOMAIN calls : calls[i].fn = fn /\ calls[i].result.raised

\* whether the last operation called fn at all
Invoked(fn) == \E i \in DOMAIN calls : calls[i].fn = fn

\* the labels the classifier's predict returned during the last operation
PredictedLabels ==
    {calls[i].result.value :
        i \in {k \in DOMAIN calls : calls[k].fn = "predict" /\ ~calls[k].result.raised}}

\* whether the cleaned form of the argument is empty or whitespace only
CleanedBlank ==
    /\ input.resume_text # None
    /\ Strip(clean_resume_for_categorization(input.resume_text[1])) = <<>>

\* C5: on a service that is not loaded, predict_category returns
\* ("Unknown", None, 0.0) for every argument, raises nothing and calls neither
\* the vectorizer nor the classifier.
C5_NotLoadedReturnsUnknown ==
    (Predicted /\ ~loaded) =>
        /\ ~outcome.raised
        /\ Result = Unknown
        /\ calls = <<>>

\* the files were there but the vectorizer was unfitted, and the text is "a"
C5_Witness ==
    /\ Predicted
    /\ ~loaded
    /\ vectorizer # None
    /\ model # None
    /\ input.resume_text = Some(<<97>>)

\* C6: construction never raises, and once it is over either loaded is true
\* and load_error is None, or loaded is false and load_error is a message.
C6_InitNeverThrows ==
    pc # "init" =>
        /\ ~init_raised
        /\ pc = "ready"
        /\ \/ (loaded /\ load_error = None)
           \/ (~loaded /\ load_error # None)

\* constructed from an unreadable vectorizer file
C6_Witness ==
    /\ pc = "ready"
    /\ tfidf_file = Unreadable
    /\ model_file.exists
    /\ ~loaded
    /\ load_error # None

\* C7, as claimed: on a loaded service with a non-blank cleaned text, an
\* exception raised by transform, predict or predict_proba yields exactly
\* ("Prediction Error", None, 0.0).
C7_AnyFailureIsPredictionError ==
    (/\ Predicted
     /\ loaded
     /\ input.resume_text # None
     /\ ~CleanedBlank
     /\ (RaisedIn("transform") \/ RaisedIn("predict") \/ RaisedIn("predict_proba"))) =>
        /\ ~outcome.raised
        /\ Result = PredictionError

\* C8: predict_category raises nothing to its caller: whatever the service
\* state, the argument and the failures inside, it returns a 3-tuple.
C8_PredictNeverRaises ==
    Predicted =>
        /\ ~outcome.raised
        /\ Len(Result) = 3

\* the classifier returned a string label, which int() refuses
C8_Witness ==
    /\ Predicted
    /\ loaded
    /\ \E p \in PredictedLabels : p.type = "str"
    /\ ~outcome.raised
    /\ Result = PredictionError

\* C9: on a loaded service, when the cleaned text is empty or whitespace only
\* the result is ("Unknown", None, 0.0) and neither transform nor predict is
\* invoked.
C9_BlankTextReturnsUnknown ==
    (Predicted /\ loaded /\ CleanedBlank) =>
        /\ ~outcome.raised
        /\ Result = Unknown
        /\ ~Invoked("transform")
        /\ ~Invoked("predict")

\* the text "RT" is not empty and cleans to one space
C9_Witness ==
    /\ Predicted
    /\ loaded
    /\ input.resume_text = Some(<<82, 84>>)
    /\ CleanedBlank
    /\ Result = Unknown

\* the name the category table gives an integer ID
NameOfId(id) ==
    IF id \in DOMAIN CATEGORY_MAPPING THEN CATEGORY_MAPPING[id]
    ELSE "Unknown Category (" \o ToString(id) \o ")"

ReturnedProbabilities ==
    {calls[i].result.value :
        i \in {k \in DOMAIN calls : calls[k].fn = "predict_proba" /\ ~calls[k].result.raised}}

\* whether the classifier held by the service has a predict_proba method
ExposesProba == model # None /\ model[1].predict_proba

\* C11: the confidence of every result lies in [0, 100] percent (0..10000
\* hundredths); when the classifier exposes predict_proba and the prediction
\* succeeded it is 100 times the largest returned probability, and when the
\* classifier has no predict_proba or the classification failed it is 0.
C11_ConfidenceIsMaxProbability ==
    Predicted =>
        /\ ~outcome.raised
        /\ Result[3] \in 0..10000
        /\ (Result[2] # None /\ ExposesProba) =>
              \E q \in ReturnedProbabilities : \E k \in DOMAIN q :
                  /\ \A j \in DOMAIN q : q[j] <= q[k]
                  /\ Result[3] = 100 * q[k]
        /\ (Result[2] = None \/ ~ExposesProba) => Result[3] = 0

\* a prediction whose probabilities were 0.15, 0.60 and 0.25
C11_Witness ==
    /\ Predicted
    /\ ExposesProba
    /\ <<15, 60, 25>> \in ReturnedProbabilities
    /\ Result[2] # None
    /\ Result[3] = 6000


\* whether the vectorizer file was there and could be deserialized
VectorizerDeserialized == tfidf_file.exists /\ tfidf_file.readable

-----------------------------------------------------------------------------
(* The categorisation cleaner on its own: clean_resume_for_categorization  *)
(* is a function of its argument, run here on texts put together from a    *)
(* few pieces that the substitutions act on.                               *)

\* the concatenation of a sequence of strings
RECURSIVE Flatten(_)
Flatten(ts) == IF ts = <<>> THEN <<>> ELSE ts[1] \o Flatten(Tail(ts))

\* "http", "HTTP", "RT", "c", "C", " ", "@", "s"
CleanTokens ==
    {<<104, 116, 116, 112>>, <<72, 84, 84, 80>>, <<82, 84>>, <<99>>, <<67>>, <<32>>,
     <<64>>, <<115>>}
CleanTexts == {Flatten(ts) : ts \in SeqsUpTo(CleanTokens, MaxCleanTokens)}

InitClean ==
    /\ tfidf_file = Missing
    /\ model_file = Missing
    /\ input \in [txt : CleanTexts]
    /\ InitService
    /\ InitStore

CleanResumeForCategorization ==
    /\ call = "none"
    /\ call' = "clean_resume_for_categorization"
    /\ outcome' = Return(clean_resume_for_categorization(input.txt))
    /\ UNCHANGED storeVars
    /\ UNCHANGED <<tfidf_file, model_file, pc, vectorizer, model, loaded, load_error,
                   init_raised, input, calls>>

NextClean == CleanResumeForCategorization

SpecClean == InitClean /\ [][NextClean]_vars

-----------------------------------------------------------------------------
(* Properties of clean_resume_for_categorization, checked under SpecClean. *)

Cleaned == call = "clean_resume_for_categorization"

\* x has a match of  http\S+\s : "http", one or more non-space characters
\* and a whitespace character
HasUrl(x) ==
    \E i \in 1..Len(x) : \E j \in (i + 5)..Len(x) :
        /\ SubSeq(x, i, i + 3) = <<104, 116, 116, 112>>
        /\ \A k \in (i + 4)..(j - 1) : ~IsSpace(x[k])
        /\ IsSpace(x[j])

\* x has '#' or '@' with a non-space character after it
HasTag(x) ==
    \E i \in 1..(Len(x) - 1) : x[i] \in {35, 64} /\ ~IsSpace(x[i + 1])

\* x is free of what the cleaner strips: URLs, hashtags, @-mentions,
\* punctuation and non-ASCII characters
AlreadyStripped(x) ==
    /\ ~HasUrl(x)
    /\ ~HasTag(x)
    /\ \A i \in 1..Len(x) : ~IsPunct(x[i]) /\ x[i] <= 127

\* x has "http" in some letter case with a non-space character after it
HasHttpTokenAnyCase(x) ==
    \E i \in 1..(Len(x) - 4) :
        /\ Lower(SubSeq(x, i, i + 3)) = <<104, 116, 116, 112>>
        /\ ~IsSpace(x[i + 4])

\* x has two adjacent letters c of which one at least is a capital
HasCapitalisedCc(x) ==
    \E i \in 1..(Len(x) - 1) :
        /\ x[i] \in {67, 99}
        /\ x[i + 1] \in {67, 99}
        /\ 67 \in {x[i], x[i + 1]}

\* C16, as claimed: cleaning is idempotent on every text that has no URL,
\* hashtag, @-mention, punctuation character or non-ASCII character:
\* cleaning the cleaned text gives the cleaned text.
C16_CleanIdempotentOnStripped ==
    (Cleaned /\ AlreadyStripped(input.txt)) =>
        clean_resume_for_categorization(outcome.value) = outcome.value

\* C16, amended: the same for the texts that, besides, have no "http" token
\* in any letter case and no "cc" with a capital letter in it.
C16_CleanIdempotentOnStrippedLowerTokens ==
    (/\ Cleaned
     /\ AlreadyStripped(input.txt)
     /\ ~HasHttpTokenAnyCase(input.txt)
     /\ ~HasCapitalisedCc(input.txt)) =>
        clean_resume_for_categorization(outcome.value) = outcome.value

\* "sRTcc": both stripped tokens are there and the first pass took them out
C16_Witness ==
    /\ Cleaned
    /\ input.txt = <<115, 82, 84, 99, 99>>
    /\ AlreadyStripped(input.txt)
    /\ ~HasHttpTokenAnyCase(input.txt)
    /\ ~HasCapitalisedCc(input.txt)
    /\ outcome.value = <<115, 32>>
    /\ clean_resume_for_categorization(outcome.value) = outcome.value


-----------------------------------------------------------------------------
(* config/settings.py: the skill lexicon, in the order of the list.        *)

SKILLS_DB == <<
    <<112, 121, 116, 104, 111, 110>>,  \* python
    <<106, 97, 118, 97>>,  \* java
    <<99, 43, 43>>,  \* c++
    <<99, 35>>,  \* c#
    <<106, 97, 118, 97, 115, 99, 114, 105, 112, 116>>,  \* javascript
    <<106, 115>>,  \* js
    <<104, 116, 109, 108>>,  \* html
    <<99, 115, 115>>,  \* css
    <<112, 104, 112>>,  \* php
    <<114, 117, 98, 121>>,  \* ruby
    <<115, 119, 105, 102, 116>>,  \* swift
    <<107, 111, 116, 108, 105, 110>>,  \* kotlin
    <<115, 113, 108>>,  \* sql
    <<109, 121, 115, 113, 108>>,  \* mysql
    <<112, 111, 115, 116, 103, 114, 101, 115, 113, 108>>,  \* postgresql
    <<115, 113, 108, 105, 116, 101>>,  \* sqlite
    <<109, 111, 110, 103, 111, 100, 98>>,  \* mongodb
    <<99, 97, 115, 115, 97, 110, 100, 114, 97>>,  \* cassandra
    <<114, 101, 100, 105, 115>>,  \* redis
    <<111, 114, 97, 99, 108, 101>>,  \* oracle
    <<115, 113, 108, 32, 115, 101, 114, 118, 101, 114>>,  \* sql server
    <<97, 119, 115>>,  \* aws
    <<97, 122, 117, 114, 101>>,  \* azure
    <<103, 111, 111, 103, 108, 101, 32, 99, 108, 111, 117, 100>>,  \* google cloud
    <<103, 99, 112>>,  \* gcp
    <<100, 111, 99, 107, 101, 114>>,  \* docker
    <<107, 117, 98, 101, 114, 110, 101, 116, 101, 115>>,  \* kubernetes
    <<116, 101, 114, 114, 97, 102, 111, 114, 109>>,  \* terraform
    <<97, 110, 115, 105, 98, 108, 101>>,  \* ansible
    <<106, 101, 110, 107, 105, 110, 115>>,  \* jenkins
    <<103, 105, 116>>,  \* git
    <<108, 105, 110, 117, 120>>,  \* linux
    <<117, 110, 105, 120>>,  \* unix
    <<119, 105, 110, 100, 111, 119, 115>>,  \* windows
    <<109, 97, 99, 111, 115>>,  \* macos
    <<114, 101, 97, 99, 116>>,  \* react
    <<97, 110, 103, 117, 108, 97, 114>>,  \* angular
    <<118, 117, 101>>,  \* vue
    <<110, 111, 100, 101, 106, 115>>,  \* nodejs
    <<100, 106, 97, 110, 103, 111>>,  \* django
    <<102, 108, 97, 115, 107>>,  \* flask
    <<115, 112, 114, 105, 110, 103>>,  \* spring
    <<114, 117, 98, 121, 32, 111, 110, 32, 114, 97, 105, 108, 115>>,  \* ruby on rails
    <<46, 110, 101, 116>>,  \* .net
    <<112, 97, 110, 100, 97, 115>>,  \* pandas
    <<110, 117, 109, 112, 121>>,  \* numpy
    <<115, 99, 105, 112, 121>>,  \* scipy
    <<115, 99, 105, 107, 105, 116, 45, 108, 101, 97, 114, 110>>,  \* scikit-learn
    <<115, 107, 108, 101, 97, 114, 110>>,  \* sklearn
    <<116, 101, 110, 115, 111, 114, 102, 108, 111, 119>>,  \* tensorflow
    <<107, 101, 114, 97, 115>>,  \* keras
    <<112, 121, 116, 111, 114, 99, 104>>,  \* pytorch
    <<109, 97, 116, 112, 108, 111, 116, 108, 105, 98>>,  \* matplotlib
    <<115, 101, 97, 98, 111, 114, 110>>,  \* seaborn
    <<112, 108, 111, 116, 108, 121>>,  \* plotly
    <<109, 97, 99, 104, 105, 110, 101, 32, 108, 101, 97, 114, 110, 105, 110, 103>>,  \* machine learning
    <<100, 101, 101, 112, 32, 108, 101, 97, 114, 110, 105, 110, 103>>,  \* deep learning
    <<100, 97, 116, 97, 32, 115, 99, 105, 101, 110, 99, 101>>,  \* data science
    <<100, 97, 116, 97, 32, 97, 110, 97, 108, 121, 115, 105, 115>>,  \* data analysis
    <<100, 97, 116, 97, 32, 118, 105, 115, 117, 97, 108, 105, 122, 97, 116, 105, 111, 110>>,  \* data visualization
    <<110, 108, 112>>,  \* nlp
    <<110, 97, 116, 117, 114, 97, 108, 32, 108, 97, 110, 103, 117, 97, 103, 101, 32, 112, 114, 111, 99, 101, 115, 115, 105, 110, 103>>,  \* natural language processing
    <<99, 111, 109, 112, 117, 116, 101, 114, 32, 118, 105, 115, 105, 111, 110>>,  \* computer vision
    <<98, 105, 103, 32, 100, 97, 116, 97>>,  \* big data
    <<104, 97, 100, 111, 111, 112>>,  \* hadoop
    <<115, 112, 97, 114, 107>>,  \* spark
    <<107, 97, 102, 107, 97>>,  \* kafka
    <<104, 105, 118, 101>>,  \* hive
    <<104, 98, 97, 115, 101>>,  \* hbase
    <<115, 112, 97, 99, 121>>,  \* spacy
    <<110, 108, 116, 107>>,  \* nltk
    <<97, 103, 105, 108, 101>>,  \* agile
    <<115, 99, 114, 117, 109>>,  \* scrum
    <<106, 105, 114, 97>>,  \* jira
    <<112, 114, 111, 106, 101, 99, 116, 32, 109, 97, 110, 97, 103, 101, 109, 101, 110, 116>>,  \* project management
    <<112, 114, 111, 100, 117, 99, 116, 32, 109, 97, 110, 97, 103, 101, 109, 101, 110, 116>>,  \* product management
    <<99, 111, 109, 109, 117, 110, 105, 99, 97, 116, 105, 111, 110>>,  \* communication
    <<116, 101, 97, 109, 119, 111, 114, 107>>,  \* teamwork
    <<108, 101, 97, 100, 101, 114, 115, 104, 105, 112>>,  \* leadership
    <<112, 114, 111, 98, 108, 101, 109, 32, 115, 111, 108, 118, 105, 110, 103>>,  \* problem solving
    <<99, 114, 105, 116, 105, 99, 97, 108, 32, 116, 104, 105, 110, 107, 105, 110, 103>>,  \* critical thinking
    <<99, 117, 115, 116, 111, 109, 101, 114, 32, 115, 101, 114, 118, 105, 99, 101>>,  \* customer service
    <<115, 97, 108, 101, 115>>,  \* sales
    <<109, 97, 114, 107, 101, 116, 105, 110, 103>>,  \* marketing
    <<115, 101, 111>>,  \* seo
    <<115, 101, 109>>,  \* sem
    <<99, 111, 110, 116, 101, 110, 116, 32, 99, 114, 101, 97, 116, 105, 111, 110>>,  \* content creation
    <<117, 105, 47, 117, 120>>,  \* ui/ux
    <<100, 101, 115, 105, 103, 110>>,  \* design
    <<112, 104, 111, 116, 111, 115, 104, 111, 112>>,  \* photoshop
    <<105, 108, 108, 117, 115, 116, 114, 97, 116, 111, 114>>,  \* illustrator
    <<102, 105, 103, 109, 97>>,  \* figma
    <<100, 101, 118, 111, 112, 115>>,  \* devops
    <<97, 117, 116, 111, 109, 97, 116, 105, 111, 110, 32, 116, 101, 115, 116, 105, 110, 103>>,  \* automation testing
    <<115, 101, 108, 101, 110, 105, 117, 109>>,  \* selenium
    <<99, 121, 98, 101, 114, 115, 101, 99, 117, 114, 105, 116, 121>>,  \* cybersecurity
    <<110, 101, 116, 119, 111, 114, 107, 32, 115, 101, 99, 117, 114, 105, 116, 121>>,  \* network security
    <<115, 97, 112>>,  \* sap
    <<101, 116, 108>>,  \* etl
    <<112, 111, 119, 101, 114, 32, 98, 105>>,  \* power bi
    <<116, 97, 98, 108, 101, 97, 117>>,  \* tableau
    <<101, 120, 99, 101, 108>>,  \* excel
    <<119, 111, 114, 100>>,  \* word
    <<112, 111, 119, 101, 114, 112, 111, 105, 110, 116>>,  \* powerpoint
    <<98, 108, 111, 99, 107, 99, 104, 97, 105, 110>>,  \* blockchain
    <<115, 111, 108, 105, 100, 105, 116, 121>>,  \* solidity
    <<101, 116, 104, 101, 114, 101, 117, 109>>,  \* ethereum
    <<104, 121, 112, 101, 114, 108, 101, 100, 103, 101, 114>>,  \* hyperledger
    <<109, 101, 99, 104, 97, 110, 105, 99, 97, 108, 32, 101, 110, 103, 105, 110, 101, 101, 114, 105, 110, 103>>,  \* mechanical engineering
    <<101, 108, 101, 99, 116, 114, 105, 99, 97, 108, 32, 101, 110, 103, 105, 110, 101, 101, 114, 105, 110, 103>>,  \* electrical engineering
    <<99, 105, 118, 105, 108, 32, 101, 110, 103, 105, 110, 101, 101, 114, 105, 110, 103>>,  \* civil engineering
    <<104, 114>>,  \* hr
    <<114, 101, 99, 114, 117, 105, 116, 109, 101, 110, 116>>,  \* recruitment
    <<116, 97, 108, 101, 110, 116, 32, 97, 99, 113, 117, 105, 115, 105, 116, 105, 111, 110>>,  \* talent acquisition
    <<101, 109, 112, 108, 111, 121, 101, 101, 32, 114, 101, 108, 97, 116, 105, 111, 110, 115>>,  \* employee relations
    <<104, 101, 97, 108, 116, 104>>,  \* health
    <<102, 105, 116, 110, 101, 115, 115>>,  \* fitness
    <<110, 117, 116, 114, 105, 116, 105, 111, 110>>,  \* nutrition
    <<97, 100, 118, 111, 99, 97, 116, 101>>,  \* advocate
    <<108, 101, 103, 97, 108>>,  \* legal
    <<108, 97, 119>>,  \* law
    <<106, 113, 117, 101, 114, 121>>,  \* jquery
    <<98, 111, 111, 116, 115, 116, 114, 97, 112>>,  \* bootstrap
    <<100, 51, 46, 106, 115>>,  \* d3.js
    <<100, 99, 46, 106, 115>>,  \* dc.js
    <<108, 111, 103, 115, 116, 97, 115, 104>>,  \* logstash
    <<107, 105, 98, 97, 110, 97>>,  \* kibana
    <<114>>,  \* r
    <<115, 97, 112, 32, 104, 97, 110, 97>>,  \* sap hana
    <<114, 101, 115, 116>>,  \* rest
    <<115, 111, 97, 112>>,  \* soap
    <<97, 112, 105>>,  \* api
    <<109, 105, 99, 114, 111, 115, 101, 114, 118, 105, 99, 101, 115>>,  \* microservices
    <<112, 109, 111>>,  \* pmo
    <<111, 112, 101, 114, 97, 116, 105, 111, 110, 115, 32, 109, 97, 110, 97, 103, 101, 109, 101, 110, 116>>,  \* operations management
    <<98, 117, 115, 105, 110, 101, 115, 115, 32, 97, 110, 97, 108, 121, 115, 105, 115>>,  \* business analysis
    <<100, 111, 116, 110, 101, 116>>  \* dotnet
>>

-----------------------------------------------------------------------------
(* services/skill_extraction.py: SkillExtractor.extract_rule_based.        *)

\* \w for a str pattern: letters, digits and the underscore (up to U+00FF)
IsWordChar(c) ==
    \/ (c >= 48 /\ c <= 57) \/ (c >= 65 /\ c <= 90) \/ c = 95 \/ (c >= 97 /\ c <= 122)
    \/ c \in {170, 178, 179, 181, 185, 186, 188, 189, 190}
    \/ (c >= 192 /\ c <= 255 /\ c \notin {215, 247})

\* whether s has a word character at index k; there is none outside s
WordAt(s, k) == k >= 1 /\ k <= Len(s) /\ IsWordChar(s[k])

\* \b just before index i: one side is a word character and the other not
WordBoundary(s, i) == WordAt(s, i - 1) # WordAt(s, i)

\* str.split(): the maximal runs of non-whitespace of s from index i on
RECURSIVE Split(_, _)
Split(s, i) ==
    IF i > Len(s) THEN <<>>
    ELSE IF IsSpace(s[i]) THEN Split(s, i + 1)
    ELSE LET e == NonSpaceRunEnd(s, i)
         IN <<SubSeq(s, i, e)>> \o Split(s, e + 1)

\* sep.join(words)
RECURSIVE Join(_, _)
Join(sep, words) ==
    IF words = <<>> THEN <<>>
    ELSE IF Len(words) = 1 THEN words[1]
    ELSE words[1] \o sep \o Join(sep, Tail(words))

\* the mutant of SearchSkill without the two \b anchors
SearchSkillAnywhere(skill, processed_text) ==
    \E i \in 1..Len(processed_text) : LiteralAt(processed_text, i, skill)

\* re.search(r"\b" + re.escape(skill) + r"\b", processed_text)
SearchSkill(skill, processed_text) ==
    \E i \in 1..Len(processed_text) :
        /\ LiteralAt(processed_text, i, skill)
        /\ WordBoundary(processed_text, i)
        /\ WordBoundary(processed_text, i + Len(skill))

\* self.skills_db_lower, line 13
skills_db_lower == {Lower(SKILLS_DB[i]) : i \in DOMAIN SKILLS_DB}

\* next((s for s in SKILLS_DB if s.lower() == skill), skill)
OriginalSkill(skill) ==
    IF \E i \in DOMAIN SKILLS_DB : Lower(SKILLS_DB[i]) = skill
    THEN SKILLS_DB[CHOOSE i \in DOMAIN SKILLS_DB :
                       /\ Lower(SKILLS_DB[i]) = skill
                       /\ \A j \in 1..(i - 1) : Lower(SKILLS_DB[j]) # skill]
    ELSE skill

\* the mutant of ProcessedText that leaves the letter case of the text
ProcessedTextAsWritten(resume_text) == Join(OneSpace, Split(resume_text, 1))

\* ' '.join(resume_text.lower().split())
ProcessedText(resume_text) == Join(OneSpace, Split(Lower(resume_text), 1))

extract_rule_based(resume_text) ==
    LET processed_text == ProcessedText(resume_text)
        found_skills == {OriginalSkill(skill) :
                            skill \in {k \in skills_db_lower : SearchSkill(k, processed_text)}}
    IN Sorted(found_skills)


-----------------------------------------------------------------------------
(* The rule-based extractor on its own, run on texts put together from     *)
(* pieces that meet the lexicon in different ways, and on a sentence.      *)

\* "Java", "scripting", " ", "SQL", "server", "c++", ".net", ","
SkillTokens ==
    {<<74, 97, 118, 97>>, <<115, 99, 114, 105, 112, 116, 105, 110, 103>>, <<32>>,
     <<83, 81, 76>>, <<115, 101, 114, 118, 101, 114>>, <<99, 43, 43>>,
     <<46, 110, 101, 116>>, <<44>>}

\* "I know PYTHON and Python."
KnowPythonTwice ==
    <<73, 32, 107, 110, 111, 119, 32, 80, 89, 84, 72, 79, 78, 32, 97, 110, 100, 32,
      80, 121, 116, 104, 111, 110, 46>>

SkillTexts ==
    {Flatten(ts) : ts \in SeqsUpTo(SkillTokens, MaxSkillTokens)} \cup {KnowPythonTwice}

InitRule ==
    /\ tfidf_file = Missing
    /\ model_file = Missing
    /\ input \in [resume_text : SkillTexts]
    /\ InitService
    /\ InitStore

ExtractRuleBased ==
    /\ call = "none"
    /\ call' = "extract_rule_based"
    /\ outcome' = Return(extract_rule_based(input.resume_text))
    /\ UNCHANGED storeVars
    /\ UNCHANGED <<tfidf_file, model_file, pc, vectorizer, model, loaded, load_error,
                   init_raised, input, calls>>

NextRule == ExtractRuleBased

SpecRule == InitRule /\ [][NextRule]_vars


-----------------------------------------------------------------------------
(* Properties of extract_rule_based, checked under SpecRule.               *)

Extracted == call = "extract_rule_based"
Skills == outcome.value

\* "python", "java"
SkillPython == <<112, 121, 116, 104, 111, 110>>
SkillJava == <<106, 97, 118, 97>>

\* C13: extract_rule_based matches without regard to letter case and returns
\* lexicon entries in the lexicon's own spelling, each at most once: the
\* result is what the lower-cased text gives, every member is an entry of
\* SKILLS_DB, no two members are equal when lower-cased, and
\* "I know PYTHON and Python." gives exactly one "python".
C13_RuleBasedCaseInsensitiveOnce ==
    Extracted =>
        /\ ~outcome.raised
        /\ Skills = extract_rule_based(Lower(input.resume_text))
        /\ \A i \in DOMAIN Skills : Skills[i] \in Range(SKILLS_DB)
        /\ \A i, j \in DOMAIN Skills : Lower(Skills[i]) = Lower(Skills[j]) => i = j
        /\ input.resume_text = KnowPythonTwice =>
              Cardinality({i \in DOMAIN Skills : Skills[i] = SkillPython}) = 1

\* the sentence with PYTHON and Python gave the one entry "python"
C13_Witness ==
    /\ Extracted
    /\ input.resume_text = KnowPythonTwice
    /\ Skills = <<SkillPython>>

\* C14: extract_rule_based emits no lexicon entry that is in the text only
\* inside a longer word: every emitted entry has an occurrence in the
\* lower-cased, whitespace-normalised text where its first letter is not
\* preceded by a word character and its last letter is not followed by one;
\* "Javascripting" yields no "java".
C14_NoEntryFromInsideAWord ==
    Extracted =>
        LET p == ProcessedText(input.resume_text)
        IN /\ \A k \in DOMAIN Skills :
                 LET s == Lower(Skills[k])
                 IN \E i \in 1..Len(p) :
                        /\ i + Len(s) - 1 <= Len(p)
                        /\ SubSeq(p, i, i + Len(s) - 1) = s
                        /\ ~(IsWordChar(s[1]) /\ WordAt(p, i - 1))
                        /\ ~(IsWordChar(s[Len(s)]) /\ WordAt(p, i + Len(s)))
           /\ (\A i \in 1..Len(p) :
                   (i + 3 <= Len(p) /\ SubSeq(p, i, i + 3) = SkillJava)
                       => WordAt(p, i - 1) \/ WordAt(p, i + 4))
                 => \A k \in DOMAIN Skills : Skills[k] # SkillJava

\* "Javascripting": java and javascript are there, inside a longer word only
C14_Witness ==
    /\ Extracted
    /\ input.resume_text = <<74, 97, 118, 97, 115, 99, 114, 105, 112, 116, 105, 110, 103>>
    /\ Skills = <<>>


-----------------------------------------------------------------------------
(* services/skill_extraction.py: SkillExtractor.extract_ner_based and      *)
(* extract_combined. The recognizer is spaCy's: the model knows of it that *)
(* it may raise, and that otherwise doc.ents is a list of entities in the  *)
(* order of the text that do not overlap, each a run of tokens with a      *)
(* label. A token is a run of word characters, a run of other non-space    *)
(* characters, or whitespace that is more than the one space after a token.*)

EntityLabels == {"ORG", "PERSON"}

\* the kind of character a token is a run of
CharClass(c) == IF IsSpace(c) THEN "space" ELSE IF IsWordChar(c) THEN "word" ELSE "other"

\* a token that is not whitespace starts at i
TokenStart(s, i) ==
    /\ ~IsSpace(s[i])
    /\ (i = 1 \/ CharClass(s[i - 1]) # CharClass(s[i]))

\* a token ends at j: a token that is not whitespace, or a run of whitespace
\* that is not a single space
TokenEnd(s, j) ==
    /\ (j = Len(s) \/ CharClass(s[j + 1]) # CharClass(s[j]))
    /\ IsSpace(s[j]) => (j > 1 /\ (s[j] # 32 \/ IsSpace(s[j - 1])))

\* the n entities of a doc by their first and last index
EntityBounds(s, n) ==
    LET spans == {sp \in {i \in 1..Len(s) : TokenStart(s, i)}
                             \X {j \in 1..Len(s) : TokenEnd(s, j)} : sp[1] <= sp[2]}
    IN {sp \in [1..n -> spans] : \A k \in 1..(n - 1) : sp[k][2] < sp[k + 1][1]}

Ents(s, n) ==
    {[k \in 1..n |-> [text |-> SubSeq(s, sp[k][1], sp[k][2]), label_ |-> ls[k]]] :
        sp \in EntityBounds(s, n), ls \in [1..n -> EntityLabels]}

\* what self.nlp(resume_text) can do: raise, or return a doc with its ents
Docs(s) ==
    {Raise("ValueError")} \cup {Return(ents) : ents \in UNION {Ents(s, n) : n \in 0..MaxEntities}}

\* ent.text.lower().strip()
EntTextLower(ent) == Strip(Lower(ent.text))

\* lines 58-60: the lexicon's spelling of a recognized entry
NerSkill(ent_text_lower) == OriginalSkill(ent_text_lower)

\* line 52
potential_skill_labels == {"ORG", "PRODUCT", "WORK_OF_ART", "LAW", "NORP"}

\* str.isdigit on text below U+0100: non-empty and only digits
IsDigitText(s) ==
    /\ s # <<>>
    /\ \A i \in DOMAIN s : s[i] \in (48..57) \cup {178, 179, 185}

\* the test of lines 61-63 on an entity that is no lexicon entry
IsPotentialSkill(ent) ==
    /\ ent.label_ \in potential_skill_labels
    /\ 2 <= Len(EntTextLower(ent))
    /\ Len(EntTextLower(ent)) < 30
    /\ ~IsDigitText(EntTextLower(ent))

\* the mutant of PotentialSkill that adds what passes the test
PotentialSkillAdded(ent) ==
    IF IsPotentialSkill(ent) THEN {EntTextLower(ent)} ELSE {}

\* lines 61-65: what the elif branch adds to found_skills_ner; its body
\* is pass
PotentialSkill(ent) ==
    IF IsPotentialSkill(ent) THEN {} ELSE {}

\* lines 47-67
extract_ner_based(nlp, resume_text, doc) ==
    IF nlp = None THEN Done(Return(<<>>), <<>>)
    ELSE IF doc.raised THEN Done(doc, <<CalledOn("nlp", resume_text, doc)>>)
    ELSE LET ents == doc.value
             InLexicon(k) == EntTextLower(ents[k]) \in skills_db_lower
             found_skills_ner ==
                 {NerSkill(EntTextLower(ents[i])) : i \in {k \in DOMAIN ents : InLexicon(k)}}
                     \cup UNION {PotentialSkill(ents[i]) :
                                    i \in {k \in DOMAIN ents : ~InLexicon(k)}}
         IN Done(Return(Sorted(found_skills_ner)), <<CalledOn("nlp", resume_text, doc)>>)

\* the mutant of Combine that returns the rule-based list alone
CombineRuleOnly(rule_skills, ner_skills) == rule_skills

\* lines 83-84: sorted(list(set(rule_skills) | set(ner_skills)))
Combine(rule_skills, ner_skills) == Sorted(Range(rule_skills) \cup Range(ner_skills))

\* lines 83-84 after lines 79-80 returned rule_skills and ner; an exception
\* of extract_ner_based leaves extract_combined
CombinedOf(rule_skills, ner) ==
    IF ner.raised THEN ner
    ELSE Done(Return(Combine(rule_skills, ner.value)), ner.calls)

-----------------------------------------------------------------------------
(* The extractor with and without a recognizer.                            *)

\* "Java", " ", "c++"
NerTokens == {<<74, 97, 118, 97>>, <<32>>, <<99, 43, 43>>}
NerTexts == {Flatten(ts) : ts \in SeqsUpTo(NerTokens, MaxNerTokens)}

\* SkillExtractor(nlp if spacy_loaded else None)
NlpModels == {None, Some("nlp")}

InitCombined ==
    /\ tfidf_file = Missing
    /\ model_file = Missing
    /\ input \in [nlp_model : NlpModels, resume_text : NerTexts]
    /\ InitService
    /\ InitStore

ExtractNerBased ==
    /\ call = "none"
    /\ \E doc \in Docs(input.resume_text) :
          LET r == extract_ner_based(input.nlp_model, input.resume_text, doc)
          IN /\ call' = "extract_ner_based"
             /\ outcome' = [raised |-> r.raised, value |-> r.value]
             /\ calls' = r.calls
    /\ UNCHANGED storeVars
    /\ UNCHANGED <<tfidf_file, model_file, pc, vectorizer, model, loaded, load_error,
                   init_raised, input>>

\* extract_combined, lines 79-84: the rule-based list does not depend on what
\* the recognizer does
ExtractCombined ==
    /\ call = "none"
    /\ \E rule_skills \in {extract_rule_based(input.resume_text)},
          doc \in Docs(input.resume_text) :
          LET r == CombinedOf(rule_skills,
                              extract_ner_based(input.nlp_model, input.resume_text, doc))
          IN /\ call' = "extract_combined"
             /\ outcome' = [raised |-> r.raised, value |-> r.value]
             /\ calls' = r.calls
    /\ UNCHANGED storeVars
    /\ UNCHANGED <<tfidf_file, model_file, pc, vectorizer, model, loaded, load_error,
                   init_raised, input>>

NextCombined == ExtractNerBased \/ ExtractCombined

SpecCombined == InitCombined /\ [][NextCombined]_vars


-----------------------------------------------------------------------------
(* Properties of the extractor, checked under SpecCombined.                *)

Combined == call = "extract_combined"
NerExtracted == call = "extract_ner_based"

\* "c++"
SkillCpp == <<99, 43, 43>>

\* C18: extract_combined returns the sorted, duplicate-free union of what
\* extract_rule_based and extract_ner_based return for the text (the latter
\* on the doc the recognizer gave); without a recognizer extract_ner_based
\* returns [] and extract_combined returns what extract_rule_based returns.
C18_CombinedIsSortedUnion ==
    /\ (NerExtracted /\ input.nlp_model = None) =>
          /\ ~outcome.raised
          /\ Skills = <<>>
          /\ calls = <<>>
    /\ Combined =>
          LET rule == extract_rule_based(input.resume_text)
          IN /\ input.nlp_model = None =>
                   /\ ~outcome.raised
                   /\ calls = <<>>
                   /\ Skills = rule
             /\ outcome.raised => (calls # <<>> /\ calls[1].result.raised)
             /\ (input.nlp_model # None /\ ~outcome.raised) =>
                   LET ner == extract_ner_based(input.nlp_model, input.resume_text,
                                                calls[1].result).value
                   IN /\ \A i \in DOMAIN rule : \E k \in DOMAIN Skills : Skills[k] = rule[i]
                      /\ \A i \in DOMAIN ner : \E k \in DOMAIN Skills : Skills[k] = ner[i]
                      /\ \A k \in DOMAIN Skills :
                            \/ \E i \in DOMAIN rule : rule[i] = Skills[k]
                            \/ \E i \in DOMAIN ner : ner[i] = Skills[k]
                      /\ \A k \in 1..(Len(Skills) - 1) : StrLess(Skills[k], Skills[k + 1])

\* "Java c++": the pattern finds java, the recognizer finds C++, and the
\* combined list holds both in order
C18_Witness ==
    /\ Combined
    /\ input.nlp_model # None
    /\ input.resume_text = <<74, 97, 118, 97, 32, 99, 43, 43>>
    /\ ~outcome.raised
    /\ extract_rule_based(input.resume_text) = <<SkillJava>>
    /\ calls = <<CalledOn("nlp", input.resume_text, Return(<<[text |-> SkillCpp, label_ |-> "ORG"]>>))>>
    /\ Skills = <<SkillCpp, SkillJava>>


-----------------------------------------------------------------------------
(* app.py: the handler of the "Analyze Resume" button, from the checks of  *)
(* its inputs to the analysis it stores in the session.                    *)

\* the mutant of MatchResult with the two lists exchanged
MatchResultSwapped(resume_skills, jd_skills) == match_with_jd(jd_skills, resume_skills)

\* line 378
MatchResult(resume_skills, jd_skills) == match_with_jd(resume_skills, jd_skills)

\* Lines 378 and 410-421: analysis_output, given what extract_combined and
\* extract_rule_based returned; an exception of the recognizer leaves the
\* handler.
AnalysisOutputOf(combined, jd) ==
    IF combined.raised THEN combined
    ELSE IF jd.raised THEN Done(jd, combined.calls \o jd.calls)
    ELSE LET match_result == MatchResult(combined.value, jd.value)
             made == combined.calls \o jd.calls
         IN IF match_result.raised THEN Done(match_result, made)
            ELSE Done(Return(Some([resume_skills |-> combined.value,
                                   jd_skills |-> jd.value,
                                   match_result |-> match_result.value])),
                      made)

\* the mutant of JdSkills that sends the job description through the
\* recognizer as well (one that finds no entity in it)
JdSkillsCombined(nlp, job_description) ==
    CombinedOf(extract_rule_based(job_description),
               extract_ner_based(nlp, job_description, Return(<<>>)))

\* line 375: skill_extractor.extract_rule_based(job_description), on the
\* extractor that holds nlp
JdSkills(nlp, job_description) ==
    Done(Return(extract_rule_based(job_description)), <<>>)

\* "Experienced Python developer skilled in Django, SQL and AWS."
ResumeOfPythonDeveloper ==
    <<69, 120, 112, 101, 114, 105, 101, 110, 99, 101, 100, 32, 80, 121, 116, 104, 111,
      110, 32, 100, 101, 118, 101, 108, 111, 112, 101, 114, 32, 115, 107, 105, 108, 108,
      101, 100, 32, 105, 110, 32, 68, 106, 97, 110, 103, 111, 44, 32, 83, 81, 76, 32,
      97, 110, 100, 32, 65, 87, 83, 46>>

\* "Looking for a Python developer with Docker and AWS experience."
JdForPythonDeveloper ==
    <<76, 111, 111, 107, 105, 110, 103, 32, 102, 111, 114, 32, 97, 32, 80, 121, 116,
      104, 111, 110, 32, 100, 101, 118, 101, 108, 111, 112, 101, 114, 32, 119, 105, 116,
      104, 32, 68, 111, 99, 107, 101, 114, 32, 97, 110, 100, 32, 65, 87, 83, 32, 101,
      120, 112, 101, 114, 105, 101, 110, 99, 101, 46>>

\* "Java c++"; the Categorize handler keeps no file without text
AnalyzeResumeTexts == {ResumeOfPythonDeveloper, <<74, 97, 118, 97, 32, 99, 43, 43>>}
AnalyzeJobDescriptions ==
    {JdForPythonDeveloper, <<83, 81, 76, 32, 115, 101, 114, 118, 101, 114>>, <<>>}

-----------------------------------------------------------------------------
(* database/db_manager.py: SupabaseManager. A table is the sequence of its *)
(* rows in the order they were inserted; id is the serial number of a row. *)

\* table(name).insert(row).execute(): the table with the row added under the
\* next id
Inserted(table, row) == Append(table, [id |-> Len(table) + 1] @@ row)

\* table('skills').select('id').eq('skill_name', skill_name), line 95
SkillRows(skills, skill_name) ==
    {skills[i] : i \in {k \in DOMAIN skills : skills[k].skill_name = skill_name}}

\* the position of an insert_resume_skills call after skill k is dealt with:
\* the next skill, or the second loop (line 106) when there is none
AfterSkill(frame) ==
    IF frame.k < Len(frame.skills) THEN [frame EXCEPT !.k = frame.k + 1, !.at = "select"]
    ELSE [frame EXCEPT !.k = frame.k + 1, !.at = "link", !.j = 1]

\* the position after row j of resume_skills is inserted: return True (line 113)
\* when it was the last
AfterLink(frame) ==
    IF frame.j <= Len(frame.skill_ids) THEN frame
    ELSE [frame EXCEPT !.at = "returned", !.result = <<TRUE>>]

\* lines 87-92: the call starts
Entered(connected, resume_id, skills, method) ==
    LET frame == [at |-> "select", resume_id |-> resume_id, skills |-> skills,
                  method |-> method, k |-> 1, j |-> 1, skill_ids |-> <<>>,
                  result |-> None]
    IN IF ~connected THEN [frame EXCEPT !.at = "returned", !.result = <<FALSE>>]
       ELSE IF skills = <<>> THEN [frame EXCEPT !.at = "returned", !.result = <<TRUE>>]
       ELSE frame

\* line 101: table('skills').insert({'skill_name': skill_name}).execute()
SkillInsertedBy(skills, skill_name) == Inserted(skills, [skill_name |-> skill_name])

\* lines 107-111: one row of resume_skills
ResumeSkillRow(frame) ==
    [resume_id |-> frame.resume_id, skill_id |-> frame.skill_ids[frame.j],
     extraction_method |-> frame.method]

\* value ILIKE '%' || query || '%', for a query without % and _
ILike(value, query) ==
    query = <<>> \/ \E i \in 1..Len(value) : LiteralAt(Lower(value), i, Lower(query))

\* database/db_manager.py, search_resumes, lines 200-212: the rows whose
\* filename matches; the request names no order for them
search_resumes(connected, resumes, query) ==
    IF ~connected THEN {}
    ELSE {resumes[i] : i \in {k \in DOMAIN resumes : ILike(resumes[k].filename, query)}}

\* database/db_manager.py, insert_resume_skills, lines 93-103, run without
\* another call in between: the skills table and the ids after skill k
RECURSIVE SkillIds(_, _, _, _)
SkillIds(skills_table, skills, k, skill_ids) ==
    IF k > Len(skills) THEN [table |-> skills_table, skill_ids |-> skill_ids]
    ELSE LET found == SkillRows(skills_table, skills[k])
         IN IF found # {}
            THEN SkillIds(skills_table, skills, k + 1,
                          Append(skill_ids,
                                 (CHOOSE row \in found : \A r \in found : row.id <= r.id).id))
            ELSE SkillIds(SkillInsertedBy(skills_table, skills[k]), skills, k + 1,
                          Append(skill_ids, Len(skills_table) + 1))

\* lines 106-111
RECURSIVE Linked(_, _, _, _)
Linked(resume_skills, frame, skill_ids, j) ==
    IF j > Len(skill_ids) THEN resume_skills
    ELSE Linked(Inserted(resume_skills,
                         ResumeSkillRow([frame EXCEPT !.skill_ids = skill_ids, !.j = j])),
                frame, skill_ids, j + 1)

\* database/db_manager.py, insert_resume_skills, lines 85-113
insert_resume_skills(database, resume_id, skills, method) ==
    LET frame == Entered(database.connected, resume_id, skills, method)
        ids == SkillIds(database.skills, skills, 1, <<>>)
    IN IF ~database.connected THEN database
       ELSE [database EXCEPT !.skills = ids.table,
                             !.resume_skills = Linked(@, frame, ids.skill_ids, 1)]

\* app.py lines 440-458: the job description and the match are saved
MatchSaved(database, resume_id, job_description, output) ==
    LET job_descriptions == Inserted(database.job_descriptions,
                                     [jd_text |-> job_description,
                                      required_skills |-> output.jd_skills])
    IN [database EXCEPT
           !.job_descriptions = job_descriptions,
           !.resume_jd_matches =
               Inserted(@, [resume_id |-> resume_id, jd_id |-> Len(job_descriptions),
                            match_score |-> output.match_result.score,
                            matching_skills |-> output.match_result.matching_skills,
                            missing_skills |-> output.match_result.missing_skills])]

\* the mutant of FoundResumes that looks the file up by its exact name
FoundResumesByName(database, selected_file) ==
    {row \in search_resumes(database.connected, database.resumes, selected_file) :
        row.filename = selected_file}

\* app.py line 430: db_manager.search_resumes(selected_file)
FoundResumes(database, selected_file) ==
    search_resumes(database.connected, database.resumes, selected_file)

\* app.py lines 428-458: what the database can hold afterwards;
\* resumes[0] is whichever matching row the database returns first
Saved(database, selected_file, job_description, output) ==
    IF ~database.connected \/ FoundResumes(database, selected_file) = {} THEN {database}
    ELSE {MatchSaved(insert_resume_skills(database, row.id, output.resume_skills, "combined"),
                     row.id, job_description, output) :
             row \in FoundResumes(database, selected_file)}

\* what the Categorize handler left for one file
FileDetails(text, result) ==
    [text |-> text, category |-> result[1], category_id |-> result[2],
     confidence |-> result[3]]

\* "a.pdf"
NameAPdf == <<97, 46, 112, 100, 102>>

\* a session after Categorize handled "a.pdf" holding resume_text, beside a
\* database that is not connected or holds the row of that file
InitAnalyze ==
    /\ tfidf_file = Missing
    /\ model_file = Missing
    /\ input \in [nlp_model : NlpModels, resume_text : AnalyzeResumeTexts,
                  job_description : AnalyzeJobDescriptions, connected : BOOLEAN]
    /\ InitService
    /\ db = IF input.connected
            THEN [NoDb EXCEPT !.connected = TRUE,
                              !.resumes = <<[id |-> 1, filename |-> NameAPdf,
                                             original_text |-> input.resume_text]>>]
            ELSE NoDb
    /\ disk = {}
    /\ session = [NoSession EXCEPT
                     !.at = "categorized",
                     !.uploaded_file_details =
                         (NameAPdf :> FileDetails(input.resume_text,
                                                  <<"Unknown Category (20)", Some(20), 6000>>))]
    /\ threads = <<>>

\* lines 413-425: st.session_state after the analysis r of selected_file
Stored(state, selected_file, job_description, r) ==
    IF r.raised \/ r.value = None THEN [state EXCEPT !.at = "analyzed"]
    ELSE [state EXCEPT
             !.at = "analyzed",
             !.analysis_output =
                 Some([selected_file |-> selected_file, job_description |-> job_description,
                       predicted_category |-> state.uploaded_file_details[selected_file].category,
                       confidence |-> state.uploaded_file_details[selected_file].confidence,
                       resume_skills |-> r.value[1].resume_skills,
                       jd_skills |-> r.value[1].jd_skills,
                       match_result |-> r.value[1].match_result])]

\* lines 428-458 after the analysis r
SavedAfter(database, selected_file, job_description, r) ==
    IF r.raised \/ r.value = None THEN {database}
    ELSE Saved(database, selected_file, job_description, r.value[1])

\* Lines 355-458, for the file picked in the select box. Without a job
\* description the handler reports an error and stops (None); else the
\* resume goes through extract_combined, whose rule-based half does not
\* depend on the recognizer, the job description through
\* extract_rule_based, the output is stored in the session and saved.
Analyze ==
    /\ call = "none"
    /\ session.at = "categorized"
    /\ \E selected_file \in DOMAIN session.uploaded_file_details :
       \E resume_text \in {session.uploaded_file_details[selected_file].text} :
       \E rule_skills \in {extract_rule_based(resume_text)},
          jd \in {JdSkills(input.nlp_model, input.job_description)},
          doc \in Docs(resume_text) :
       \E r \in {IF input.job_description = <<>> THEN Done(Return(None), <<>>)
                 ELSE AnalysisOutputOf(
                          CombinedOf(rule_skills,
                                     extract_ner_based(input.nlp_model, resume_text, doc)),
                          jd)} :
             /\ call' = "analyze"
             /\ outcome' = [raised |-> r.raised, value |-> r.value]
             /\ calls' = r.calls
             /\ session' = Stored(session, selected_file, input.job_description, r)
             /\ db' \in SavedAfter(db, selected_file, input.job_description, r)
    /\ UNCHANGED <<disk, threads>>
    /\ UNCHANGED <<tfidf_file, model_file, pc, vectorizer, model, loaded, load_error,
                   init_raised, input>>

NextAnalyze == Analyze

SpecAnalyze == InitAnalyze /\ [][NextAnalyze]_vars

-----------------------------------------------------------------------------
(* Properties of the analysis, checked under SpecAnalyze.                  *)

Analyzed == call = "analyze"
AnalysisOutput == outcome.value[1]

\* "django", "sql", "aws", "docker"
SkillDjango == <<100, 106, 97, 110, 103, 111>>
SkillSql == <<115, 113, 108>>
SkillAws == <<97, 119, 115>>
SkillDocker == <<100, 111, 99, 107, 101, 114>>

\* C15: for the resume "Experienced Python developer skilled in Django, SQL
\* and AWS." and the job description "Looking for a Python developer with
\* Docker and AWS experience.", whatever the recognizer reports, the resume
\* skills include python, django, sql and aws, the JD skills are exactly
\* python, docker and aws, matching_skills is [aws, python], missing_skills
\* is [docker], matched_count is 2, total_jd_skills is 3 and score is 66.67.
C15_PythonDeveloperScores6667 ==
    (/\ Analyzed
     /\ input.resume_text = ResumeOfPythonDeveloper
     /\ input.job_description = JdForPythonDeveloper
     /\ ~outcome.raised) =>
        /\ outcome.value # None
        /\ {SkillPython, SkillDjango, SkillSql, SkillAws}
               \subseteq Range(AnalysisOutput.resume_skills)
        /\ Range(AnalysisOutput.jd_skills) = {SkillPython, SkillDocker, SkillAws}
        /\ AnalysisOutput.match_result.matching_skills = <<SkillAws, SkillPython>>
        /\ AnalysisOutput.match_result.missing_skills = <<SkillDocker>>
        /\ AnalysisOutput.match_result.matched_count = 2
        /\ AnalysisOutput.match_result.total_jd_skills = 3
        /\ AnalysisOutput.match_result.score = 6667

\* the pair analysed with a recognizer that reported "Django" as an entity
C15_Witness ==
    /\ Analyzed
    /\ input.resume_text = ResumeOfPythonDeveloper
    /\ input.job_description = JdForPythonDeveloper
    /\ input.nlp_model # None
    /\ ~outcome.raised
    /\ calls = <<CalledOn("nlp", input.resume_text,
                        Return(<<[text |-> <<68, 106, 97, 110, 103, 111>>,
                                  label_ |-> "ORG"]>>))>>
    /\ AnalysisOutput.match_result.score = 6667
    /\ AnalysisOutput.match_result.matching_skills = <<SkillAws, SkillPython>>


-----------------------------------------------------------------------------
(* services/ml_service.py: batch_predict, is_loaded and get_ml_service.    *)

\* the mutant of AppendResult that keeps the classified items only
AppendResultIfClassified(results, result) ==
    IF result[2] = None THEN results ELSE Append(results, result)

\* results.append(result), line 186
AppendResult(results, result) == Append(results, result)

\* The loop of lines 184-186 from item i on, envs[i] being what the
\* vectorizer and the classifier do during the call for item i; an exception
\* of predict_category would leave batch_predict.
RECURSIVE BatchLoop(_, _, _, _, _, _)
BatchLoop(self, resume_texts, envs, i, results, made) ==
    IF i > Len(resume_texts) THEN Done(Return(results), made)
    ELSE LET result == predict_category(self, resume_texts[i], envs[i])
         IN IF result.raised THEN Done(result, made \o result.calls)
            ELSE BatchLoop(self, resume_texts, envs, i + 1,
                           AppendResult(results, result.value), made \o result.calls)

batch_predict(self, resume_texts, envs) == BatchLoop(self, resume_texts, envs, 1, <<>>, <<>>)

\* is_loaded, lines 99-101
is_loaded(self) == Return(<<self.loaded>>)

\* the service object a construction on the two files leaves
Constructed(tfidf, ml) ==
    LET r == load_models(tfidf, ml)
    IN [vectorizer |-> r.vectorizer, model |-> r.model, loaded |-> r.loaded,
        load_error |-> r.load_error]

\* the mutant of get_ml_service without the cache: a new service each time
GetMlServiceUncached(cached, tfidf, ml) == Constructed(tfidf, ml)

\* get_ml_service, lines 191-194: st.cache_resource runs the body on the
\* first call and hands the object it returned to every later call
get_ml_service(cached, tfidf, ml) ==
    IF cached # None THEN cached[1] ELSE Constructed(tfidf, ml)

-----------------------------------------------------------------------------
(* The constructed service under any sequence of calls, while the model    *)
(* files can disappear from the disk.                                      *)

\* None, "a", "RT"
CallTexts == {None, Some(<<97>>), Some(<<82, 84>>)}

\* transform raises; predict raises; predict returns 20
CallBehaviours ==
    {Behaviour(TRUE, FALSE, FALSE, IntLabel(0, FALSE), FALSE, <<100, 0>>),
     Behaviour(FALSE, FALSE, TRUE, IntLabel(0, FALSE), FALSE, <<100, 0>>),
     Behaviour(FALSE, FALSE, FALSE, IntLabel(20, TRUE), FALSE, <<15, 60, 25>>)}

\* vectorizers: fitted, and with a vocabulary and IDF weights in _tfidf only
CallTfidfFiles ==
    {Missing,
     Pickled([vocabulary_ |-> "fitted", idf_ |-> "fitted", tfidf_idf |-> TRUE]),
     Pickled([vocabulary_ |-> "fitted", idf_ |-> "absent", tfidf_idf |-> TRUE])}

InitCalls ==
    /\ tfidf_file \in CallTfidfFiles
    /\ model_file \in {Pickled(m) : m \in ModelObjects}
    /\ input \in [resume_texts : SeqsUpTo(CallTexts, MaxBatch)]
    /\ InitService
    /\ InitStore

\* predict_category on one of the texts
CallPredictCategory ==
    /\ pc = "ready"
    /\ \E i \in DOMAIN input.resume_texts : \E env \in CallBehaviours :
          LET r == predict_category(Self, input.resume_texts[i], env)
          IN /\ call' = "predict_category"
             /\ outcome' = [raised |-> r.raised, value |-> r.value]
             /\ calls' = r.calls
    /\ UNCHANGED storeVars
    /\ UNCHANGED <<tfidf_file, model_file, pc, vectorizer, model, loaded, load_error,
                   init_raised, input>>

BatchPredict ==
    /\ pc = "ready"
    /\ \E envs \in [DOMAIN input.resume_texts -> CallBehaviours] :
          LET r == batch_predict(Self, input.resume_texts, envs)
          IN /\ call' = "batch_predict"
             /\ outcome' = [raised |-> r.raised, value |-> r.value]
             /\ calls' = r.calls
    /\ UNCHANGED storeVars
    /\ UNCHANGED <<tfidf_file, model_file, pc, vectorizer, model, loaded, load_error,
                   init_raised, input>>

IsLoaded ==
    /\ pc = "ready"
    /\ call' = "is_loaded"
    /\ outcome' = is_loaded(Self)
    /\ calls' = <<>>
    /\ UNCHANGED storeVars
    /\ UNCHANGED <<tfidf_file, model_file, pc, vectorizer, model, loaded, load_error,
                   init_raised, input>>

\* a later call of get_ml_service(): the service it returns is the one the
\* application goes on with
GetMlService ==
    /\ pc = "ready"
    /\ LET service == get_ml_service(Some(Self), tfidf_file, model_file)
       IN /\ vectorizer' = service.vectorizer
          /\ model' = service.model
          /\ loaded' = service.loaded
          /\ load_error' = service.load_error
    /\ call' = "get_ml_service"
    /\ outcome' = NoOutcome
    /\ calls' = <<>>
    /\ UNCHANGED storeVars
    /\ UNCHANGED <<tfidf_file, model_file, pc, init_raised, input>>

\* the two pickle files are taken away
RemoveModelFiles ==
    /\ pc = "ready"
    /\ tfidf_file # Missing \/ model_file # Missing
    /\ tfidf_file' = Missing
    /\ model_file' = Missing
    /\ UNCHANGED storeVars
    /\ UNCHANGED <<pc, vectorizer, model, loaded, load_error, init_raised, input, call,
                   outcome, calls>>

NextCalls ==
    \/ LoadModels
    \/ CallPredictCategory
    \/ BatchPredict
    \/ IsLoaded
    \/ GetMlService
    \/ RemoveModelFiles

SpecCalls == InitCalls /\ [][NextCalls]_vars


-----------------------------------------------------------------------------
(* Properties of the service under sequences of calls, checked under       *)
(* SpecCalls.                                                              *)

Batched == call = "batch_predict"

\* C12: batch_predict returns a list as long as its argument whose i-th
\* element is what predict_category returns for the i-th text alone, given
\* what the vectorizer and the classifier did for that item: an item that
\* fails has its own sentinel and the other items keep their results.
C12_BatchIsItemwise ==
    Batched =>
        /\ ~outcome.raised
        /\ Len(Result) = Len(input.resume_texts)
        /\ \E envs \in [DOMAIN input.resume_texts -> CallBehaviours] :
              LET alone == [i \in DOMAIN input.resume_texts |->
                               predict_category(Self, input.resume_texts[i], envs[i])]
              IN /\ \A i \in DOMAIN input.resume_texts :
                       /\ ~alone[i].raised
                       /\ Result[i] = alone[i].value
                 /\ calls = Flatten([i \in DOMAIN input.resume_texts |-> alone[i].calls])

\* a batch of None and "a": the first item fails, the second is classified
C12_Witness ==
    /\ Batched
    /\ loaded
    /\ input.resume_texts = <<None, Some(<<97>>)>>
    /\ ~outcome.raised
    /\ Result[1] = PredictionError
    /\ Result[2] = <<"Python Developer", Some(20), 6000>>

\* C20: the model pair is loaded by the construction and by nothing else:
\* once the service is constructed, no step (predict_category,
\* batch_predict, is_loaded, a later get_ml_service, the files leaving the
\* disk) changes loaded, load_error or the vectorizer and classifier held.
C20_ServiceFrame ==
    [][pc = "ready" =>
          /\ pc' = "ready"
          /\ vectorizer' = vectorizer
          /\ model' = model
          /\ loaded' = loaded
          /\ load_error' = load_error]_vars

\* the files are gone, and a batch was still classified by the objects
\* loaded at construction
C20_Witness ==
    /\ pc = "ready"
    /\ tfidf_file = Missing
    /\ model_file = Missing
    /\ loaded
    /\ load_error = None
    /\ vectorizer # None
    /\ model # None
    /\ Batched
    /\ \E i \in DOMAIN Result : Result[i][2] # None


-----------------------------------------------------------------------------
(* Properties of extract_ner_based, checked under SpecCombined.            *)

\* the entities the recognizer returned during the last operation
RecognizedEntities ==
    IF calls = <<>> \/ calls[1].result.raised THEN {}
    ELSE Range(calls[1].result.value)

\* "java"
SkillJavaLower == <<106, 97, 118, 97>>

\* C21, as claimed: every skill extract_ner_based returns is a lexicon entry
\* whose lowercase equals the lowercased text of a recognized entity, and an
\* entity with a label of the interest set whose text is no lexicon entry
\* adds nothing.
C21_NerSkillIsLoweredEntityText ==
    (NerExtracted /\ ~outcome.raised) =>
        /\ \A k \in DOMAIN Skills :
              /\ Skills[k] \in Range(SKILLS_DB)
              /\ \E ent \in RecognizedEntities : Lower(Skills[k]) = Lower(ent.text)
        /\ \A ent \in RecognizedEntities :
              (ent.label_ \in potential_skill_labels /\ Lower(ent.text) \notin skills_db_lower)
                  => \A k \in DOMAIN Skills : Lower(Skills[k]) # Lower(ent.text)

\* C21, amended: every skill extract_ner_based returns is a lexicon entry
\* whose lowercase equals the lowercased text, with the whitespace at its two
\* ends removed, of a recognized entity; an entity of whatever label whose
\* text so reduced is no lexicon entry adds nothing, so that the result has
\* exactly the lexicon entries some entity names.
C21_NerSkillIsStrippedLoweredEntityText ==
    (NerExtracted /\ ~outcome.raised) =>
        /\ \A k \in DOMAIN Skills :
              /\ Skills[k] \in Range(SKILLS_DB)
              /\ \E ent \in RecognizedEntities : Lower(Skills[k]) = EntTextLower(ent)
        /\ \A ent \in RecognizedEntities :
              IF EntTextLower(ent) \in skills_db_lower
              THEN \E k \in DOMAIN Skills : Lower(Skills[k]) = EntTextLower(ent)
              ELSE \A k \in DOMAIN Skills : Skills[k] # EntTextLower(ent)

\* "Java  " recognized whole as an ORG: the entity text ends in whitespace
\* and the result is the lexicon's "java"
C21_Witness ==
    /\ NerExtracted
    /\ input.resume_text = <<74, 97, 118, 97, 32, 32>>
    /\ RecognizedEntities = {[text |-> <<74, 97, 118, 97, 32, 32>>, label_ |-> "ORG"]}
    /\ Skills = <<SkillJavaLower>>


-----------------------------------------------------------------------------
(* Properties of the Analyze action, checked under SpecAnalyze.            *)

\* "SQL server"
JdSqlServer == <<83, 81, 76, 32, 115, 101, 114, 118, 101, 114>>

\* C22: an Analyze action that reaches the extraction applies the
\* recognizer to the resume text only (never to the job description, even
\* when one is configured); what it stores has resume_skills equal to
\* extract_combined of the resume text (on the doc the recognizer gave),
\* jd_skills equal to extract_rule_based of the job description, and
\* match_result equal to match_with_jd(resume_skills, jd_skills).
C22_AnalyzeUsesRuleBasedForJd ==
    Analyzed =>
        /\ \A i \in DOMAIN calls :
              calls[i].fn = "nlp" => (i = 1 /\ calls[i].arg = input.resume_text)
        /\ (~outcome.raised /\ outcome.value # None) =>
              LET rule == extract_rule_based(input.resume_text)
                  resume_skills ==
                      IF input.nlp_model = None THEN rule
                      ELSE CombinedOf(rule,
                                      extract_ner_based(input.nlp_model, input.resume_text,
                                                        calls[1].result)).value
              IN /\ (input.nlp_model # None) = (calls # <<>>)
                 /\ AnalysisOutput.resume_skills = resume_skills
                 /\ AnalysisOutput.jd_skills = extract_rule_based(input.job_description)
                 /\ AnalysisOutput.match_result =
                        match_with_jd(AnalysisOutput.resume_skills,
                                      AnalysisOutput.jd_skills).value

\* "Java c++" against "SQL server" with a recognizer configured that
\* reported C++ in the resume: one recognizer call, on the resume
C22_Witness ==
    /\ Analyzed
    /\ input.nlp_model # None
    /\ input.resume_text = <<74, 97, 118, 97, 32, 99, 43, 43>>
    /\ input.job_description = JdSqlServer
    /\ calls = <<CalledOn("nlp", input.resume_text,
                          Return(<<[text |-> SkillCpp, label_ |-> "ORG"]>>))>>
    /\ ~outcome.raised
    /\ AnalysisOutput.resume_skills = <<SkillCpp, SkillJavaLower>>
    /\ SkillSql \in Range(AnalysisOutput.jd_skills)
    /\ AnalysisOutput.match_result.score = 0


-----------------------------------------------------------------------------
(* services/text_processing.py: the general cleaner and the cleaner for    *)
(* categorisation with remove_stopwords = True, run beside the default one *)
(* on texts with punctuation, non-ASCII letters and words around rt and cc.*)

\* entries of stopwords.words('english') (the NLTK corpus, read at line 34):
\* "a", "s", "t", "the"
StopWords == {<<97>>, <<115>>, <<116>>, <<116, 104, 101>>}

\* lines 33-35: ' '.join(word for word in clean_text.split()
\*                       if word.lower() not in stop_words)
RemoveStopwords(clean_text) ==
    Join(OneSpace, SelectSeq(Split(clean_text, 1), LAMBDA word : Lower(word) \notin StopWords))

\* clean_resume_for_categorization(txt, remove_stopwords=True), lines 25-37;
\* stopwords.words raises LookupError when the corpus is not installed
clean_resume_removing_stopwords(txt, corpus_found) ==
    IF corpus_found THEN Return(Lower(RemoveStopwords(CleanSubstitutions(txt))))
    ELSE Raise("LookupError")

\* clean_text_general(txt), lines 9-17
clean_text_general(txt) ==
    LET t0 == Lower(txt)
        t1 == SubTokenSpace(t0, 1, Http, OneSpace)
        t2 == SubEither(t1, 1, LowerRT, LowerCC, OneSpace)
        t3 == SubToken(t2, 1, Hash, <<>>)
        t4 == SubToken(t3, 1, At, TwoSpaces)
        t5 == SubPunct(t4)
        t6 == SubNonAscii(t5)
        t7 == SubSpaces(t6, 1)
    IN Strip(t7)

MaxVariantTokens == 3

\* "RT", "cc", "a", "ount", "S", " ", newline, "É", "#", "@", "http", "."
VariantTokens ==
    {<<82, 84>>, <<99, 99>>, <<97>>, <<111, 117, 110, 116>>, <<83>>, <<32>>, <<10>>,
     <<201>>, <<35>>, <<64>>, <<104, 116, 116, 112>>, <<46>>}
VariantTexts == {Flatten(ts) : ts \in SeqsUpTo(VariantTokens, MaxVariantTokens)}

InitVariants ==
    /\ tfidf_file = Missing
    /\ model_file = Missing
    /\ input \in [txt : VariantTexts]
    /\ InitService
    /\ InitStore

CleanResumeRemovingStopwords ==
    /\ call = "none"
    /\ \E corpus_found \in BOOLEAN :
          /\ call' = "clean_resume_for_categorization(remove_stopwords=True)"
          /\ outcome' = clean_resume_removing_stopwords(input.txt, corpus_found)
    /\ UNCHANGED storeVars
    /\ UNCHANGED <<tfidf_file, model_file, pc, vectorizer, model, loaded, load_error,
                   init_raised, input, calls>>

CleanTextGeneral ==
    /\ call = "none"
    /\ call' = "clean_text_general"
    /\ outcome' = Return(clean_text_general(input.txt))
    /\ UNCHANGED storeVars
    /\ UNCHANGED <<tfidf_file, model_file, pc, vectorizer, model, loaded, load_error,
                   init_raised, input, calls>>

NextVariants ==
    CleanResumeForCategorization \/ CleanResumeRemovingStopwords \/ CleanTextGeneral

SpecVariants == InitVariants /\ [][NextVariants]_vars

CleanedRemovingStopwords == call = "clean_resume_for_categorization(remove_stopwords=True)"
CleanedGeneral == call = "clean_text_general"

\* whether lit occurs in s
Occurs(lit, s) == \E i \in 1..Len(s) : LiteralAt(s, i, lit)

\* a word of letters and digits of Basic Latin only
IsPlainWord(w) ==
    \A i \in DOMAIN w : (w[i] \in 48..57) \/ (w[i] \in 65..90) \/ (w[i] \in 97..122)

\* the words of the input the claim says are kept: not an RT or cc token
\* (told apart by case for the categorisation cleaner, in any case for the
\* general one), not part of a URL, a hashtag or a mention, and here also
\* free of punctuation and of letters outside Basic Latin
KeptWords(txt, any_case) ==
    {w \in Range(Split(txt, 1)) :
        /\ IsPlainWord(w)
        /\ ~Occurs(Http, Lower(w))
        /\ IF any_case THEN Lower(w) \notin {LowerRT, LowerCC}
           ELSE w \notin {UpperRT, LowerCC}}

\* C23, as claimed: step 2 strips the tokens RT and cc, and every other word
\* of the input that is not part of a URL, hashtag or mention appears in
\* the output unchanged apart from lowercasing, in clean_for_categorization
\* (where RT and cc are told apart by case) and in clean_general (where
\* they are not).
C23_OtherWordsKept ==
    /\ Cleaned =>
          \A w \in KeptWords(input.txt, FALSE) :
              Lower(w) \in Range(Split(outcome.value, 1))
    /\ CleanedGeneral =>
          \A w \in KeptWords(input.txt, TRUE) :
              Lower(w) \in Range(Split(outcome.value, 1))


\* whether the text has no punctuation, nothing above U+007F, no capital
\* letter and no two whitespace characters in a row
IsNormalized(x) ==
    /\ \A i \in DOMAIN x :
          /\ ~IsPunct(x[i])
          /\ x[i] <= 127
          /\ x[i] \notin 65..90
    /\ \A i \in 1..(Len(x) - 1) : ~(IsSpace(x[i]) /\ IsSpace(x[i + 1]))

\* C24: what clean_for_categorization returns, with remove_stopwords off or
\* on, has no character of the stripped punctuation class, no code point
\* above 0x7F, no uppercase letter and no run of two or more whitespace
\* characters; what clean_general returns is so too and moreover neither
\* starts nor ends with whitespace.
C24_CleanedIsNormalized ==
    /\ Cleaned => IsNormalized(outcome.value)
    /\ (CleanedRemovingStopwords /\ ~outcome.raised) => IsNormalized(outcome.value)
    /\ CleanedGeneral =>
          /\ IsNormalized(outcome.value)
          /\ outcome.value # <<>> =>
                (~IsSpace(outcome.value[1]) /\ ~IsSpace(outcome.value[Len(outcome.value)]))

\* "É.S" through clean_general: the capital letter above U+007F and the dot
\* become spaces, which are collapsed and stripped, and "s" is left
C24_Witness ==
    /\ CleanedGeneral
    /\ input.txt = <<201, 46, 83>>
    /\ outcome.value = <<115>>


-----------------------------------------------------------------------------
(* Completeness of extract_rule_based, checked under SpecRule.             *)

\* whether skill stands alone in text: written in any letter case, with the
\* start of the text or whitespace before it and whitespace or the end of
\* the text after it
StandsAlone(skill, text) ==
    \E i \in 1..Len(text) :
        /\ LiteralAt(Lower(text), i, skill)
        /\ (i = 1 \/ IsSpace(text[i - 1]))
        /\ (i + Len(skill) > Len(text) \/ IsSpace(text[i + Len(skill)]))

\* C27, as claimed: the result of extract_rule_based contains every lexicon
\* entry that stands alone in the text, entries that begin or end with a
\* character that is no letter or digit ('c++', 'c#', '.net') included.
C27_StandaloneEntriesFound ==
    Extracted =>
        \A i \in DOMAIN SKILLS_DB :
            StandsAlone(SKILLS_DB[i], input.resume_text) => SKILLS_DB[i] \in Range(Skills)


-----------------------------------------------------------------------------
(* The shape of every result of predict_category, checked under Spec.      *)

ModelError == <<"Model Error", None, 0>>

Sentinels == {"Unknown", "Prediction Error", "Model Error"}

\* C28: in every result of predict_category, category_id is null exactly
\* when category is "Unknown", "Prediction Error" or "Model Error", and then
\* confidence is 0.0; when category_id is not null, category is the category
\* table's name for that ID or "Unknown Category (<id>)" for that same ID.
C28_NullIdIffSentinel ==
    Predicted =>
        /\ ~outcome.raised
        /\ (Result[2] = None) <=> (Result[1] \in Sentinels)
        /\ Result[2] = None => Result[3] = 0
        /\ Result[2] # None =>
              \/ Result[2][1] \in DOMAIN CATEGORY_MAPPING
                    /\ Result[1] = CATEGORY_MAPPING[Result[2][1]]
              \/ Result[1] = "Unknown Category (" \o ToString(Result[2][1]) \o ")"

\* a loaded service whose vectorizer raised in transform
C28_Witness ==
    /\ Predicted
    /\ loaded
    /\ RaisedIn("transform")
    /\ Result = ModelError


-----------------------------------------------------------------------------
(* insert_resume_skills called from several browser sessions at once: each *)
(* request to the database is one step, and the steps of the calls         *)
(* interleave.                                                              *)

Sessions == {"A", "B"}

MaxCallSkills == 2

\* "java", "sql"
CallSkillNames == {<<106, 97, 118, 97>>, <<115, 113, 108>>}

\* the lists extract_combined hands over: sorted, without duplicates
CallSkillLists ==
    {l \in SeqsUpTo(CallSkillNames, MaxCallSkills) :
        \A i \in 1..(Len(l) - 1) : StrLess(l[i], l[i + 1])}

\* the skills table before the calls: empty, or holding "java"
SkillTables == {<<>>, <<[id |-> 1, skill_name |-> <<106, 97, 118, 97>>]>>}

InitSkills ==
    /\ tfidf_file = Missing
    /\ model_file = Missing
    /\ input \in [connected : BOOLEAN, skills_table : SkillTables,
                  skills : [Sessions -> CallSkillLists]]
    /\ InitService
    /\ db = [NoDb EXCEPT !.connected = input.connected, !.skills = input.skills_table]
    /\ disk = {}
    /\ session = NoSession
    /\ threads = [t \in Sessions |-> [at |-> "idle"]]

\* session t calls insert_resume_skills(resume_id, skills, 'combined')
EnterInsertResumeSkills(t) ==
    /\ threads[t].at = "idle"
    /\ threads' = [threads EXCEPT ![t] =
                       Entered(db.connected, IF t = "A" THEN 1 ELSE 2, input.skills[t],
                               "combined")]
    /\ UNCHANGED <<db, disk, session>>
    /\ UNCHANGED <<tfidf_file, model_file, pc, vectorizer, model, loaded, load_error,
                   init_raised, input, call, outcome, calls>>

\* lines 95-98: the select for skill k; with a row found its id is kept
SelectSkill(t) ==
    /\ threads[t].at = "select"
    /\ LET frame == threads[t]
           found == SkillRows(db.skills, frame.skills[frame.k])
       IN IF found = {}
          THEN threads' = [threads EXCEPT ![t].at = "insert"]
          ELSE \E row \in found :
                  threads' = [threads EXCEPT ![t] =
                      AfterSkill([frame EXCEPT !.skill_ids = Append(@, row.id)])]
    /\ UNCHANGED <<db, disk, session>>
    /\ UNCHANGED <<tfidf_file, model_file, pc, vectorizer, model, loaded, load_error,
                   init_raised, input, call, outcome, calls>>

\* lines 100-103: the insert for skill k, after a select that found no row
InsertSkill(t) ==
    /\ threads[t].at = "insert"
    /\ LET frame == threads[t]
           skills == SkillInsertedBy(db.skills, frame.skills[frame.k])
       IN /\ db' = [db EXCEPT !.skills = skills]
          /\ threads' = [threads EXCEPT ![t] =
                 AfterSkill(IF Len(skills) > Len(db.skills)
                            THEN [frame EXCEPT !.skill_ids = Append(@, Len(skills))]
                            ELSE frame)]
    /\ UNCHANGED <<disk, session>>
    /\ UNCHANGED <<tfidf_file, model_file, pc, vectorizer, model, loaded, load_error,
                   init_raised, input, call, outcome, calls>>

\* lines 106-111: row j of resume_skills
LinkSkill(t) ==
    /\ threads[t].at = "link"
    /\ LET frame == threads[t]
       IN IF frame.j > Len(frame.skill_ids)
          THEN /\ threads' = [threads EXCEPT ![t] = AfterLink(frame)]
               /\ db' = db
          ELSE /\ db' = [db EXCEPT !.resume_skills = Inserted(@, ResumeSkillRow(frame))]
               /\ threads' = [threads EXCEPT ![t] = AfterLink([frame EXCEPT !.j = @ + 1])]
    /\ UNCHANGED <<disk, session>>
    /\ UNCHANGED <<tfidf_file, model_file, pc, vectorizer, model, loaded, load_error,
                   init_raised, input, call, outcome, calls>>

\* lines 114-116: a request raised; the call logs it and returns False
FailInsertResumeSkills(t) ==
    /\ threads[t].at \in {"select", "insert", "link"}
    /\ threads' = [threads EXCEPT ![t].at = "returned", ![t].result = <<FALSE>>]
    /\ UNCHANGED <<db, disk, session>>
    /\ UNCHANGED <<tfidf_file, model_file, pc, vectorizer, model, loaded, load_error,
                   init_raised, input, call, outcome, calls>>

NextSkills ==
    \E t \in Sessions :
        \/ EnterInsertResumeSkills(t)
        \/ SelectSkill(t)
        \/ InsertSkill(t)
        \/ LinkSkill(t)
        \/ FailInsertResumeSkills(t)

SpecSkills == InitSkills /\ [][NextSkills]_vars

\* C25, as claimed: whatever the interleaving of insert_resume_skills calls,
\* the skills table holds at most one row per skill_name, and the rows it
\* held before are still there unchanged.
C25_SkillsDeduplicated ==
    /\ \A i, k \in DOMAIN db.skills :
          db.skills[i].skill_name = db.skills[k].skill_name => i = k
    /\ Len(db.skills) >= Len(input.skills_table)
    /\ SubSeq(db.skills, 1, Len(input.skills_table)) = input.skills_table


-----------------------------------------------------------------------------
(* app.py: the Categorize handler. Every round of its loop is one step.    *)

\* what a Streamlit call put on the page, and the file it names (if any)
Shown(fn, about) == [fn |-> fn, about |-> about]

\* os.path.join(".", f"temp_{file_name}"), line 256
TempPath(file_name) == <<46, 47, 116, 101, 109, 112, 95>> \o file_name

\* os.path.basename of a path
Basename(path) ==
    LET slashes == {i \in DOMAIN path : path[i] = 47}
    IN IF slashes = {} THEN path
       ELSE SubSeq(path, (CHOOSE i \in slashes : \A k \in slashes : k <= i) + 1, Len(path))

\* utils/file_handlers.py, get_file_extension, lines 82-84:
\* os.path.splitext(filename)[1].lower()
get_file_extension(filename) ==
    LET dots == {i \in DOMAIN filename : filename[i] = 46}
        last == CHOOSE i \in dots : \A k \in dots : k <= i
    IN IF dots # {} /\ (\E k \in 1..(last - 1) : filename[k] # 46)
       THEN Lower(SubSeq(filename, last, Len(filename)))
       ELSE <<>>

PdfExtension == <<46, 112, 100, 102>>
DocxExtension == <<46, 100, 111, 99, 120>>

\* utils/file_handlers.py, read_pdf, lines 9-32: the text, and what it shows
read_pdf(file_path, file, env) ==
    LET text == IF env.read_raises THEN <<>> ELSE file.text
        errors == IF env.read_raises
                  THEN <<Shown("st.error", Some(Basename(file_path)))>> ELSE <<>>
        warnings == IF text = <<>>
                    THEN <<Shown("st.warning", Some(Basename(file_path)))>> ELSE <<>>
    IN [text |-> text, shown |-> errors \o warnings]

\* utils/file_handlers.py, read_docx, lines 35-55
read_docx(file, env) ==
    IF env.read_raises THEN [text |-> <<>>, shown |-> <<Shown("st.error", None)>>]
    ELSE [text |-> file.text,
          shown |-> IF file.text = <<>> THEN <<Shown("st.warning", Some(file.name))>>
                    ELSE <<>>]

\* lines 262-268
ExtractText(file, env) ==
    LET file_ext == get_file_extension(file.name)
    IN IF file_ext = PdfExtension THEN read_pdf(TempPath(file.name), file, env)
       ELSE IF file_ext = DocxExtension THEN read_docx(file, env)
       ELSE [text |-> <<>>, shown |-> <<>>]

\* database/db_manager.py, insert_resume (lines 59-70) and insert_analysis
\* (lines 72-83): the table afterwards and the record returned, None when
\* the database is not connected or the request raised
InsertInto(connected, table, row, raises) ==
    IF ~connected \/ raises THEN [table |-> table, record |-> None]
    ELSE LET after == Inserted(table, row)
         IN [table |-> after, record |-> Some(after[Len(after)])]

\* lines 283-287: the row of the results table
ResultRow(file_name, category_name, confidence) ==
    [Filename |-> file_name, PredictedCategory |-> category_name,
     Confidence |-> IF confidence > 0 THEN Some(confidence) ELSE None]

\* lines 270-303: a file whose text was extracted and for which
\* predict_category returned result
Categorized(state, file, text, env, result) ==
    LET resume == InsertInto(state.db.connected, state.db.resumes,
                             [filename |-> file.name, original_text |-> text],
                             env.insert_resume_raises)
        analysis == IF resume.record # None /\ result[2] # None
                    THEN InsertInto(state.db.connected, state.db.resume_analysis,
                                    [resume_id |-> resume.record[1].id,
                                     category_id |-> result[2][1],
                                     confidence_score |-> result[3]],
                                    env.insert_analysis_raises)
                    ELSE [table |-> state.db.resume_analysis, record |-> None]
    IN [state EXCEPT
           !.session.uploaded_file_details =
               (file.name :> [text |-> text, category |-> result[1],
                              category_id |-> result[2], confidence |-> result[3]]) @@ @,
           !.session.categorization_data =
               Append(@, ResultRow(file.name, result[1], result[3])),
           !.db.resumes = resume.table,
           !.db.resume_analysis = analysis.table]

\* lines 305-307: the clean-up at the end of the try block
CleanedUp(state, temp_path, env) ==
    IF temp_path \notin state.disk THEN [state EXCEPT !.raised = FALSE]
    ELSE IF env.remove_raises THEN [state EXCEPT !.raised = TRUE]
    ELSE [state EXCEPT !.disk = @ \ {temp_path}, !.raised = FALSE]

\* lines 262-303, after the temp file is written
Processed(state, self, file, env, read) ==
    IF read.text = <<>> THEN [state EXCEPT !.session.shown = @ \o read.shown]
    ELSE Categorized([state EXCEPT !.session.shown = @ \o read.shown], file, read.text, env,
                     predict_category(self, Some(read.text), env.behaviour).value)

\* lines 254-307: the try block of one round; raised tells whether an
\* exception left it
Tried(state, self, file, env) ==
    IF env.open_raises THEN [state EXCEPT !.raised = TRUE]
    ELSE IF env.write_raises
    THEN [state EXCEPT !.disk = @ \cup {TempPath(file.name)}, !.raised = TRUE]
    ELSE CleanedUp(Processed([state EXCEPT !.disk = @ \cup {TempPath(file.name)}],
                             self, file, env, ExtractText(file, env)),
                   TempPath(file.name), env)

\* lines 309-310: the except clause
Handled(tried, file_name) ==
    IF tried.raised
    THEN [tried EXCEPT !.session.shown = Append(@, Shown("st.error", Some(file_name)))]
    ELSE tried

\* the mutant of NextRound in which an exception ends the loop
NextRoundUnlessRaised(i, n, raised) == IF raised THEN n + 1 ELSE i + 1

\* the round the for loop of line 248 goes on with after round i of n
NextRound(i, n, raised) == i + 1

\* line 248: on to the next round
Advanced(handled, n) ==
    [handled EXCEPT !.session.i = NextRound(@, n, handled.raised)]

\* line 252: status_text.text(f"Processing {file_name}...")
Started(state, file_name) ==
    [state EXCEPT !.session.shown = Append(@, Shown("status_text", Some(file_name)))]

\* lines 248-312: round i of the loop, for uploaded_files[i]
Round(state, self, uploaded_files, env) ==
    Advanced(Handled(Tried(Started(state, uploaded_files[state.session.i].name),
                           self, uploaded_files[state.session.i], env),
                     uploaded_files[state.session.i].name),
             Len(uploaded_files))

\* what the reader, the classifier, the database and the file system do
\* while one file is handled
FileEnv(open, write, read, behaviour, resume, analysis, remove) ==
    [open_raises |-> open, write_raises |-> write, read_raises |-> read,
     behaviour |-> behaviour, insert_resume_raises |-> resume,
     insert_analysis_raises |-> analysis, remove_raises |-> remove]

\* predict returns 20 with the probabilities 0.15, 0.60, 0.25
Classifies == Behaviour(FALSE, FALSE, FALSE, IntLabel(20, TRUE), FALSE, <<15, 60, 25>>)
TransformRaises == Behaviour(TRUE, FALSE, FALSE, IntLabel(0, FALSE), FALSE, <<100, 0>>)

NoFault == FileEnv(FALSE, FALSE, FALSE, Classifies, FALSE, FALSE, FALSE)

\* nothing fails, or one thing does: open, write, the reader, transform,
\* the insert of the resume, the insert of the analysis, os.remove
FileEnvs ==
    {NoFault,
     FileEnv(TRUE, FALSE, FALSE, Classifies, FALSE, FALSE, FALSE),
     FileEnv(FALSE, TRUE, FALSE, Classifies, FALSE, FALSE, FALSE),
     FileEnv(FALSE, FALSE, TRUE, Classifies, FALSE, FALSE, FALSE),
     FileEnv(FALSE, FALSE, FALSE, TransformRaises, FALSE, FALSE, FALSE),
     FileEnv(FALSE, FALSE, FALSE, Classifies, TRUE, FALSE, FALSE),
     FileEnv(FALSE, FALSE, FALSE, Classifies, FALSE, TRUE, FALSE),
     FileEnv(FALSE, FALSE, FALSE, Classifies, FALSE, FALSE, TRUE)}

\* the environments of a session in which things may fail, or may not
FileEnvsOf(faults) == IF faults THEN FileEnvs ELSE {NoFault}

MaxUploads == 2

\* one element of st.file_uploader's list
UploadedFile(name, text) == [name |-> name, text |-> text]

\* "b.DOCX", "n.txt"
NameBDocx == <<98, 46, 68, 79, 67, 88>>
NameNTxt == <<110, 46, 116, 120, 116>>
\* "a.pdf" holding "Java", "a.pdf" without text, "b.DOCX" holding "sql",
\* "n.txt" holding "x"
Uploads ==
    {UploadedFile(NameAPdf, <<74, 97, 118, 97>>), UploadedFile(NameAPdf, <<>>),
     UploadedFile(NameBDocx, <<115, 113, 108>>), UploadedFile(NameNTxt, <<120>>)}

\* a page that is drawn and waits for a click
IdleSession == [NoSession EXCEPT !.at = "idle"]

FittedTfidf == Pickled([vocabulary_ |-> "fitted", idf_ |-> "fitted", tfidf_idf |-> TRUE])

InitCategorize ==
    /\ tfidf_file \in {Missing, FittedTfidf}
    /\ model_file = Pickled([predict_proba |-> TRUE])
    /\ input \in [uploaded_files : SeqsUpTo(Uploads, MaxUploads), connected : BOOLEAN,
                  faults : {TRUE}]
    /\ InitService
    /\ db = [NoDb EXCEPT !.connected = input.connected]
    /\ disk = {}
    /\ session = IdleSession
    /\ threads = <<>>

\* lines 225-246: the click; the handler stops at once without files, without
\* the models or without the database
CategorizeClick ==
    /\ pc = "ready"
    /\ session.at = "idle"
    /\ LET cleared == [session EXCEPT !.categorization_results = None,
                                      !.uploaded_file_details = <<>>,
                                      !.analysis_output = None,
                                      !.categorization_data = <<>>]
           Stopped == [cleared EXCEPT !.at = "stopped",
                                      !.shown = Append(@, Shown("st.error", None))]
       IN session' = IF input.uploaded_files = <<>> THEN Stopped
                     ELSE IF ~is_loaded(Self).value[1] THEN Stopped
                     ELSE IF ~db.connected THEN Stopped
                     ELSE [cleared EXCEPT !.at = "loop", !.i = 1]
    /\ UNCHANGED <<db, disk, threads>>
    /\ UNCHANGED <<tfidf_file, model_file, pc, vectorizer, model, loaded, load_error,
                   init_raised, input, call, outcome, calls>>

\* lines 248-312: one round of the loop
CategorizeFile ==
    /\ session.at = "loop"
    /\ session.i <= Len(input.uploaded_files)
    /\ \E env \in FileEnvsOf(input.faults) :
          LET after == Round([session |-> session, db |-> db, disk |-> disk,
                              raised |-> FALSE],
                             Self, input.uploaded_files, env)
          IN /\ session' = after.session
             /\ db' = after.db
             /\ disk' = after.disk
    /\ UNCHANGED threads
    /\ UNCHANGED <<tfidf_file, model_file, pc, vectorizer, model, loaded, load_error,
                   init_raised, input, call, outcome, calls>>

\* lines 314-320: after the loop
CategorizeFinish ==
    /\ session.at = "loop"
    /\ session.i > Len(input.uploaded_files)
    /\ session' =
          IF session.categorization_data # <<>>
          THEN [session EXCEPT !.at = "categorized",
                               !.shown = Append(@, Shown("status_text", None)),
                               !.categorization_results = Some(session.categorization_data)]
          ELSE [session EXCEPT !.at = "categorized",
                               !.shown = @ \o <<Shown("status_text", None),
                                                Shown("st.warning", None)>>]
    /\ UNCHANGED <<db, disk, threads>>
    /\ UNCHANGED <<tfidf_file, model_file, pc, vectorizer, model, loaded, load_error,
                   init_raised, input, call, outcome, calls>>

NextCategorize == LoadModels \/ CategorizeClick \/ CategorizeFile \/ CategorizeFinish

SpecCategorize == InitCategorize /\ [][NextCategorize]_vars


-----------------------------------------------------------------------------
(* Properties of the Categorize loop, checked under SpecCategorize.        *)

IsRoundStart(message) == message.fn = "status_text" /\ message.about # None
IsReport(message) == message.fn \in {"st.error", "st.warning"}

\* the file names the loop announced ("Processing <name>..."), in order
Attempted ==
    LET starts == SelectSeq(session.shown, IsRoundStart)
    IN [k \in DOMAIN starts |-> starts[k].about[1]]

\* the round during which message m was shown (0 before the first round)
RoundOf(m) == Cardinality({k \in 1..m : IsRoundStart(session.shown[k])})

\* whether round k showed an error or a warning
Reported(k) ==
    \E m \in DOMAIN session.shown : IsReport(session.shown[m]) /\ RoundOf(m) = k

\* whether file k has a supported extension and text to extract
HasText(k) ==
    /\ get_file_extension(input.uploaded_files[k].name) \in {PdfExtension, DocxExtension}
    /\ input.uploaded_files[k].text # <<>>

\* the names of the files of rounds, in upload order
NamesOf(rounds) ==
    LET Name(k) == <<input.uploaded_files[k].name>>
        RECURSIVE From(_)
        From(k) == IF k > Len(input.uploaded_files) THEN <<>>
                   ELSE (IF k \in rounds THEN Name(k) ELSE <<>>) \o From(k + 1)
    IN From(1)

\* C26: when the Categorize loop is over, every uploaded file was attempted
\* exactly once, in upload order; every error or warning that names a file
\* was shown in that file's round and names that file; and the results hold,
\* in upload order, a row for every file with text whose round showed no
\* error or warning, whatever happened to the other files (and rows only
\* for files with text).
C26_FailuresStayWithTheirFile ==
    session.at = "categorized" =>
        /\ Attempted = [k \in DOMAIN input.uploaded_files |-> input.uploaded_files[k].name]
        /\ \A m \in DOMAIN session.shown :
              (IsReport(session.shown[m]) /\ session.shown[m].about # None) =>
                  /\ RoundOf(m) \in DOMAIN input.uploaded_files
                  /\ session.shown[m].about[1] \in
                        {input.uploaded_files[RoundOf(m)].name,
                         Basename(TempPath(input.uploaded_files[RoundOf(m)].name))}
        /\ \E rounds \in SUBSET DOMAIN input.uploaded_files :
              /\ \A k \in DOMAIN input.uploaded_files :
                    /\ (HasText(k) /\ ~Reported(k)) => k \in rounds
                    /\ k \in rounds => HasText(k)
              /\ [k \in DOMAIN session.categorization_data |->
                     session.categorization_data[k].Filename] = NamesOf(rounds)

\* "a.pdf" then "b.DOCX": writing the temp file of the first raised, which
\* was reported, and the second file is in the results
C26_Witness ==
    /\ session.at = "categorized"
    /\ Len(input.uploaded_files) = 2
    /\ input.uploaded_files[1] = UploadedFile(NameAPdf, <<74, 97, 118, 97>>)
    /\ input.uploaded_files[2].name = NameBDocx
    /\ session.shown[2] = Shown("st.error", Some(NameAPdf))
    /\ Len(session.categorization_data) = 1
    /\ session.categorization_data[1].Filename = NameBDocx
    /\ Len(db.resumes) = 1

\* C30, as claimed: when the loop goes on to the next file or finishes, the
\* temp file of every file handled so far no longer exists.
C30_TempFileGone ==
    session.at \in {"loop", "categorized"} =>
        \A k \in 1..(session.i - 1) : TempPath(input.uploaded_files[k].name) \notin disk

-----------------------------------------------------------------------------
(* One browser session beside a database that already holds the resumes of *)
(* earlier uploads: Categorize, then Analyze of one of the files.          *)

MaxHistory == 1

\* "a.pdf", "xa.pdf"
HistoryNames == {NameAPdf, <<120, 97, 46, 112, 100, 102>>}

\* the resumes table after the earlier uploads
HistoryTable(names) ==
    [i \in DOMAIN names |->
        [id |-> i, filename |-> names[i], original_text |-> <<111, 108, 100>>]]

InitSession ==
    /\ tfidf_file = FittedTfidf
    /\ model_file = Pickled([predict_proba |-> TRUE])
    /\ input \in [uploaded_files : SeqsUpTo(Uploads, MaxUploads),
                  history : SeqsUpTo(HistoryNames, MaxHistory),
                  faults : {FALSE}, nlp_model : {None},
                  job_description : {<<>>, <<74, 97, 118, 97, 32, 115, 113, 108>>}]
    /\ InitService
    /\ db = [NoDb EXCEPT !.connected = TRUE, !.resumes = HistoryTable(input.history)]
    /\ disk = {}
    /\ session = IdleSession
    /\ threads = <<>>

NextSession ==
    LoadModels \/ CategorizeClick \/ CategorizeFile \/ CategorizeFinish \/ Analyze

SpecSession == InitSession /\ [][NextSession]_vars

\* the resumes rows this session's Categorize inserted for a file name
OwnResumeIds(file_name) ==
    {k \in DOMAIN db.resumes : k > Len(input.history) /\ db.resumes[k].filename = file_name}

\* C29: the resume_skills and resume_jd_matches rows an Analyze action wrote
\* reference a resumes row that the Categorize action of the same session
\* inserted for the selected file, whatever earlier uploads the table holds.
C29_AnalyzeReferencesOwnResume ==
    (call = "analyze" /\ session.analysis_output # None) =>
        /\ \A k \in DOMAIN db.resume_skills :
               db.resume_skills[k].resume_id
                   \in OwnResumeIds(session.analysis_output[1].selected_file)
        /\ \A k \in DOMAIN db.resume_jd_matches :
               db.resume_jd_matches[k].resume_id
                   \in OwnResumeIds(session.analysis_output[1].selected_file)

====
